---- MODULE Spec2Model ----
(***************************************************************************)
(* Model of the piano transcription pipeline: ground-truth generation and  *)
(* dataset serialization (ps_preprocessing.py), fold drivers, and the      *)
(* chunked activation computation (ps_inference.py).                       *)
(*                                                                         *)
(* A binary matrix with n rows is modelled by its shape and the set of     *)
(* cells <<row, column>> that hold 1.  Time is counted in integer ticks;   *)
(* dt is the frame period in ticks, so that onset / dt is a proper         *)
(* fraction that np.round has to round.                                    *)
(***************************************************************************)
EXTENDS Integers, Sequences, FiniteSets, TLC

\* ------------------------------------------------------------------------
\* Bounds of the model
\* ------------------------------------------------------------------------
MaxNotes == 2
MaxFrames == 3
MaxOnsetPlus == 2
MaxContext == 3
MaxSpecFrames == 5
MaxFiles == 2
MaxCores == 2
MaxActFrames == 8
MaxChunk == 4
MaxWriterNotes == 1

\* ------------------------------------------------------------------------
\* Program constants
\* ------------------------------------------------------------------------
NumKeys == 88
NumChroma == 12
MinPitch == 21

\* frame period in ticks (dt = 1 / fps)
DtTicks == 2
\* note onsets and durations in ticks: with dt = 2 they give the frame
\* fractions 0, 1, 1.5, 2.5, 3, 4.5 that np.round rounds to 0, 1, 2, 2, 3, 4
Onsets == {0, 3}
Durations == {0, 2, 3, 6}
\* piano pitches of the modelled MIDI files (labels 0 and 87)
Pitches == {21, 108}

VARIABLES
    op,             \* the function this behaviour calls
    notes,          \* contents of the MIDI file: records (onset, pitch, duration)
    n_frames,       \* number of rows of the feature matrix
    is_chroma,      \* argument of midi_to_groundtruth
    n_onset_plus,   \* argument of midi_to_triple_groundtruth
    gt_result,      \* value returned by the ground-truth function, or NoResult
    context_frames, \* half window (windowed writer) or chunk length (non-overlap)
    norm,           \* re-scale the feature matrix to [0, 1]
    wr_result,      \* outcome of a per-file writer: status, records, count
    filenames,      \* the fold file list, one path per entry
    num_cores,      \* multiprocessing.cpu_count()
    pc,             \* position of the fold driver: "idle", "run", "done", "raised"
    invoked,        \* indices of the entries the writer was invoked on, in order
    tasks,          \* per entry: "pending", "running", "done" or "failed"
    returned,       \* per entry: the count its writer call returned, or -1
    total_examples_processed, \* running total of the sequential drivers
    disk,           \* record files on disk: path, source entry, records, closed
    metadata,       \* the totals saved to the fold metadata archive, in order
    act,            \* spectrogram_to_[non_overlap_]note_activation: position,
                    \* passes done, accumulation buffers and returned arrays
    tr,             \* transcribe_piano_piece: position, locals, files written
    net,            \* conv_net_init: position, tensors bound, losses registered
    sched,          \* cycle_fn: the schedule built and the steps it was asked
    gen,            \* chunks: the iterators created and what each has yielded
    hp,             \* wav_to_hpcp: position, parameter map, column blocks
    jm,             \* convert_jams_to_midi: position, folder, MIDI files written
    em,             \* compute_all_error_metrics: position, accumulators, report
    ses,            \* an inference driver: predictors built, bound and passed on
    sp,             \* get_spec_processor: the caller's map and the returned pair
    vis,            \* a record inspection loop: dataset, counter, records read
    grid            \* put_kernels_on_grid.factorization: n, loop index, result

gtVars == <<notes, n_frames, is_chroma, n_onset_plus, gt_result>>
wrVars == <<context_frames, norm, wr_result>>
foldVars == <<filenames, num_cores, pc, invoked, tasks, returned,
              total_examples_processed, disk, metadata>>
auxVars == <<tr, net, sched, gen, hp, jm>>
toolVars == <<em, ses, sp, vis, grid>>
vars == <<op, gtVars, wrVars, foldVars, act, auxVars, toolVars>>

NoResult == [status |-> "none"]

\* values of the variables a behaviour does not use
GtIdle ==
    /\ notes = <<>>
    /\ n_frames = 0
    /\ is_chroma = FALSE
    /\ n_onset_plus = 0
    /\ gt_result = NoResult

WrIdle ==
    /\ context_frames = 0
    /\ norm = FALSE
    /\ wr_result = NoResult

FoldIdle ==
    /\ filenames = <<>>
    /\ num_cores = 0
    /\ pc = "idle"
    /\ invoked = <<>>
    /\ tasks = <<>>
    /\ returned = <<>>
    /\ total_examples_processed = 0
    /\ disk = {}
    /\ metadata = <<>>

ActIdle == act = [pc |-> "idle"]

Idle == [pc |-> "idle"]
AuxIdle ==
    /\ tr = Idle
    /\ net = Idle
    /\ sched = Idle
    /\ gen = Idle
    /\ hp = Idle
    /\ jm = Idle
ToolIdle ==
    /\ em = Idle
    /\ ses = Idle
    /\ sp = Idle
    /\ vis = Idle
    /\ grid = Idle

\* ------------------------------------------------------------------------
\* Ground-truth generation (ps_preprocessing.py)
\* ------------------------------------------------------------------------

\* np.round(a / b) for a >= 0, b > 0: round half to even
NpRound(a, b) ==
    LET q == a \div b
        r == a % b
    IN  IF 2 * r < b THEN q
        ELSE IF 2 * r > b THEN q + 1
        ELSE IF q % 2 = 0 THEN q ELSE q + 1

Note == [onset : Onsets, pitch : Pitches, duration : Durations]

frame_start(note, d) == NpRound(note.onset, d)
frame_end(note, d) == NpRound(note.onset + note.duration, d)

\* label = np.mod(pitch - 21, 12) if is_chroma else pitch - 21
label(note, chroma) ==
    IF chroma THEN (note.pitch - MinPitch) % NumChroma
    ELSE note.pitch - MinPitch

\* m[a:b, col] = 1 on a matrix of n rows (0 <= a): the slice is clipped
SetSlice(m, a, b, col, n) ==
    m \cup {<<f, col>> : f \in {g \in 0..(n - 1) : a <= g /\ g < b}}

\* body of the note loop of midi_to_groundtruth
OnsetGuardOff(note, d) == TRUE
OnsetGuard(note, d) == frame_start(note, d) + 2 <= frame_end(note, d)

GtNoteStep(acc, note, d, n, chroma) ==
    LET fs == frame_start(note, d)
        fe == frame_end(note, d)
        lb == label(note, chroma)
    IN  [frame_gt |-> SetSlice(acc.frame_gt, fs, fe, lb, n),
         onset_gt |-> IF OnsetGuard(note, d)
                      THEN SetSlice(acc.onset_gt, fs, fs + 2, lb, n)
                      ELSE acc.onset_gt]

RECURSIVE GtLoop(_, _, _, _, _)
GtLoop(acc, ns, d, n, chroma) ==
    IF ns = <<>> THEN acc
    ELSE GtLoop(GtNoteStep(acc, Head(ns), d, n, chroma), Tail(ns), d, n, chroma)

\* midi_to_groundtruth returns the pair (ground_truth, onset_gt): a tuple
midi_to_groundtruth(ns, d, n, chroma) ==
    LET r == GtLoop([frame_gt |-> {}, onset_gt |-> {}], ns, d, n, chroma)
    IN  [status |-> "ok", type |-> "tuple",
         frame_gt |-> r.frame_gt, onset_gt |-> r.onset_gt,
         offset_gt |-> {}, onset_plus |-> <<>>]

\* m[row, col] = 1 on a matrix of n rows: an index past the end raises
InBounds(row, n) == row < n
SetCell(m, row, col) == m \cup {<<row, col>>}

\* for index in range(0, n_onset_plus): if frame_start + index + 1 < frame_end:
\*     onset_plus[index][frame_start + index + 1, label] = 1
RECURSIVE OnsetPlusLoop(_, _, _, _, _, _, _)
OnsetPlusLoop(acc, index, nop, fs, fe, lb, n) ==
    IF acc.status # "ok" \/ index >= nop THEN acc
    ELSE IF fs + index + 1 < fe
    THEN IF InBounds(fs + index + 1, n)
         THEN OnsetPlusLoop(
                [acc EXCEPT !.onset_plus[index + 1] =
                                SetCell(@, fs + index + 1, lb)],
                index + 1, nop, fs, fe, lb, n)
         ELSE [acc EXCEPT !.status = "IndexError"]
    ELSE OnsetPlusLoop(acc, index + 1, nop, fs, fe, lb, n)

\* onset_gt[frame_start, label] = 1
TripleOnsetAsSlice(acc, fs, lb, n) ==
    [acc EXCEPT !.onset_gt = SetSlice(@, fs, fs + 2, lb, n)]
TripleOnset(acc, fs, lb, n) ==
    IF InBounds(fs, n)
    THEN [acc EXCEPT !.onset_gt = SetCell(@, fs, lb)]
    ELSE [acc EXCEPT !.status = "IndexError"]

\* body of the note loop of midi_to_triple_groundtruth, statement by statement
TripleNoteStep(acc, note, d, n, nop) ==
    LET fs == frame_start(note, d)
        fe == frame_end(note, d)
        lb == label(note, FALSE)
        a1 == [acc EXCEPT !.frame_gt = SetSlice(@, fs, fe, lb, n)]
        a2 == TripleOnset(a1, fs, lb, n)
        a3 == OnsetPlusLoop(a2, 0, nop, fs, fe, lb, n)
    IN  IF a3.status # "ok" THEN a3
        ELSE IF InBounds(fe, n)
        THEN [a3 EXCEPT !.offset_gt = SetCell(@, fe, lb)]
        ELSE [a3 EXCEPT !.status = "IndexError"]

RECURSIVE TripleLoop(_, _, _, _, _)
TripleLoop(acc, ns, d, n, nop) ==
    IF ns = <<>> \/ acc.status # "ok" THEN acc
    ELSE TripleLoop(TripleNoteStep(acc, Head(ns), d, n, nop), Tail(ns), d, n, nop)

\* midi_to_triple_groundtruth: the 4-tuple, or the IndexError that ends the call
midi_to_triple_groundtruth(ns, d, n, nop) ==
    TripleLoop([status |-> "ok", type |-> "tuple",
                frame_gt |-> {}, onset_gt |-> {}, offset_gt |-> {},
                onset_plus |-> [k \in 1..nop |-> {}]], ns, d, n, nop)

\* ------------------------------------------------------------------------
\* Calls of the ground-truth functions on a MIDI file
\* ------------------------------------------------------------------------
NoteLists == UNION {[1..k -> Note] : k \in 0..MaxNotes}

InitGT ==
    /\ op \in {"midi_to_groundtruth", "midi_to_triple_groundtruth"}
    /\ notes \in NoteLists
    /\ n_frames \in 1..MaxFrames
    /\ is_chroma = FALSE
    /\ n_onset_plus = 0
    /\ gt_result = NoResult
    /\ WrIdle
    /\ FoldIdle
    /\ ActIdle
    /\ AuxIdle
    /\ ToolIdle

CallMidiToGroundtruth ==
    /\ op = "midi_to_groundtruth"
    /\ gt_result = NoResult
    /\ \E chroma \in BOOLEAN :
         /\ is_chroma' = chroma
         /\ gt_result' = midi_to_groundtruth(notes, DtTicks, n_frames, chroma)
    /\ UNCHANGED <<toolVars, auxVars, op, notes, n_frames, n_onset_plus, wrVars, foldVars, act>>

CallMidiToTripleGroundtruth ==
    /\ op = "midi_to_triple_groundtruth"
    /\ gt_result = NoResult
    /\ \E nop \in 0..MaxOnsetPlus :
         /\ n_onset_plus' = nop
         /\ gt_result' = midi_to_triple_groundtruth(notes, DtTicks, n_frames, nop)
    /\ UNCHANGED <<toolVars, auxVars, op, notes, n_frames, is_chroma, wrVars, foldVars, act>>

NextGT ==
    \/ CallMidiToGroundtruth
    \/ CallMidiToTripleGroundtruth

SpecGT == InitGT /\ [][NextGT]_vars

\* ------------------------------------------------------------------------
\* Per-file writers (ps_preprocessing.py)
\*
\* A feature matrix is the sequence of its rows; a row is a magnitude num/den.
\* A label matrix is turned into the sequence of its rows, a row being the set
\* of labels that hold 1.  ravel() flattens row by row, so a record field is
\* kept as the sequence of the rows it was flattened from.
\* ------------------------------------------------------------------------
Min(a, b) == IF a < b THEN a ELSE b

\* the feature matrix wav_to_spec / wav_to_hpcp yields for a file of F frames
Spectrogram(F) == [i \in 1..F |-> [num |-> i, den |-> 1]]

\* np.divide(spectrogram, np.max(spectrogram))
Normalize(spec) ==
    LET mx == CHOOSE m \in {spec[i].num : i \in 1..Len(spec)} :
                  \A i \in 1..Len(spec) : spec[i].num <= m
    IN  [i \in 1..Len(spec) |-> [num |-> spec[i].num, den |-> mx]]

ZeroSpecRow == [num |-> 0, den |-> 1]
ZeroLabelRow == {}

\* the rows of an n x 88 label matrix
MatrixRows(m, n) == [i \in 1..n |-> {l \in 0..(NumKeys - 1) : <<i - 1, l>> \in m}]

\* sequence[a:b] for 0 <= a <= b
Slice(seq, a, b) == SubSeq(seq, a + 1, Min(b, Len(seq)))

\* def chunks(sequence, length): for index in range(0, len(sequence), length)
RECURSIVE ChunksFrom(_, _, _)
ChunksFrom(seq, length, index) ==
    IF index >= Len(seq) THEN <<>>
    ELSE <<Slice(seq, index, index + length)>> \o ChunksFrom(seq, length, index + length)

chunks(seq, length) == ChunksFrom(seq, length, 0)

\* split[-1] = np.append(split[-1], np.zeros([length - split[-1].shape[0], ..]))
PadLastNone(split, length, zero) == split
PadLast(split, length, zero) ==
    [split EXCEPT ![Len(split)] =
        @ \o [k \in 1..(length - Len(@)) |-> zero]]

\* ground_truth[frame, :] -- a tuple cannot be indexed by (frame, slice)
IndexRow(obj, frame) ==
    IF obj.type = "ndarray"
    THEN [status |-> "ok", row |-> obj.rows[frame + 1]]
    ELSE [status |-> "TypeError", row |-> {}]

\* for frame in range(context_frames, spectrogram.shape[0] - context_frames)
RECURSIVE WindowLoop(_, _, _, _, _)
WindowLoop(acc, spec, ground_truth, C, frame) ==
    IF acc.status # "ok" \/ frame >= Len(spec) - C THEN acc
    ELSE LET window == Slice(spec, frame - C, frame + C + 1)
             lab == IndexRow(ground_truth, frame)
         IN  IF lab.status # "ok"
             THEN [acc EXCEPT !.status = lab.status]
             ELSE WindowLoop(
                    [acc EXCEPT !.records = Append(@, [spec |-> window,
                                                       label |-> <<lab.row>>,
                                                       onset |-> <<>>]),
                                !.total = @ + 1],
                    spec, ground_truth, C, frame + 1)

\* write_file_to_tfrecords: ground_truth is bound to the whole value that
\* midi_to_groundtruth returns
write_file_to_tfrecords(ns, F, nrm, C) ==
    LET spectrogram == Spectrogram(F)
        ground_truth == midi_to_groundtruth(ns, DtTicks, F, FALSE)
        scaled == IF nrm THEN Normalize(spectrogram) ELSE spectrogram
    IN  WindowLoop([status |-> "ok", records |-> <<>>, total |-> 0],
                   scaled, ground_truth, C, C)

\* for ex, gt, onset in zip(split_spec, split_gt, split_onset_gt)
RECURSIVE ZipLoop(_, _, _, _, _)
ZipLoop(acc, split_spec, split_gt, split_onset_gt, i) ==
    IF i > Min(Len(split_spec), Min(Len(split_gt), Len(split_onset_gt))) THEN acc
    ELSE ZipLoop([acc EXCEPT !.records = Append(@, [spec |-> split_spec[i],
                                                    label |-> split_gt[i],
                                                    onset |-> split_onset_gt[i]]),
                             !.total = @ + 1],
                 split_spec, split_gt, split_onset_gt, i + 1)

\* write_file_to_non_overlap_tfrecords: the pair returned by
\* midi_to_groundtruth is unpacked into ground_truth, onset_gt
write_file_to_non_overlap_tfrecords(ns, F, nrm, C) ==
    LET spectrogram == Spectrogram(F)
        gt == midi_to_groundtruth(ns, DtTicks, F, FALSE)
        ground_truth == MatrixRows(gt.frame_gt, F)
        onset_gt == MatrixRows(gt.onset_gt, F)
        scaled == IF nrm THEN Normalize(spectrogram) ELSE spectrogram
        split_spec == PadLast(chunks(scaled, C), C, ZeroSpecRow)
        split_gt == PadLast(chunks(ground_truth, C), C, ZeroLabelRow)
        split_onset_gt == PadLast(chunks(onset_gt, C), C, ZeroLabelRow)
    IN  ZipLoop([status |-> "ok", records |-> <<>>, total |-> 0],
                split_spec, split_gt, split_onset_gt, 1)

WriterNoteLists == UNION {[1..k -> Note] : k \in 0..MaxWriterNotes}

InitWriter ==
    /\ op \in {"write_file_to_tfrecords", "write_file_to_non_overlap_tfrecords"}
    /\ notes \in WriterNoteLists
    /\ n_frames \in 1..MaxSpecFrames
    /\ context_frames \in (IF op = "write_file_to_tfrecords" THEN 0 ELSE 1)..MaxContext
    /\ norm \in BOOLEAN
    /\ wr_result = NoResult
    /\ is_chroma = FALSE
    /\ n_onset_plus = 0
    /\ gt_result = NoResult
    /\ FoldIdle
    /\ ActIdle
    /\ AuxIdle
    /\ ToolIdle

CallWriteFileToTfrecords ==
    /\ op = "write_file_to_tfrecords"
    /\ wr_result = NoResult
    /\ wr_result' = write_file_to_tfrecords(notes, n_frames, norm, context_frames)
    /\ UNCHANGED <<toolVars, auxVars, op, gtVars, context_frames, norm, foldVars, act>>

CallWriteFileToNonOverlapTfrecords ==
    /\ op = "write_file_to_non_overlap_tfrecords"
    /\ wr_result = NoResult
    /\ wr_result' = write_file_to_non_overlap_tfrecords(notes, n_frames, norm,
                                                        context_frames)
    /\ UNCHANGED <<toolVars, auxVars, op, gtVars, context_frames, norm, foldVars, act>>

NextWriter ==
    \/ CallWriteFileToTfrecords
    \/ CallWriteFileToNonOverlapTfrecords

SpecWriter == InitWriter /\ [][NextWriter]_vars

\* ------------------------------------------------------------------------
\* Fold drivers (ps_preprocessing.py)
\*
\* An entry of the fold file list is a path, kept as the sequence of its
\* components between the "/" separators.
\* ------------------------------------------------------------------------
FoldPaths == {<<"a", "x">>, <<"b", "x">>, <<"a", "y">>, <<"gone">>}

\* the input files on disk: number of feature frames of an entry's audio
FramesOf(file) ==
    CASE file = <<"a", "x">> -> 5
      [] file = <<"b", "x">> -> 3
      [] file = <<"a", "y">> -> 2
      [] OTHER -> 0

\* an entry whose audio file does not exist cannot be read
Readable(file) == file # <<"gone">>

SeqDrivers == {"preprocess_fold", "preprocess_non_overlap_fold"}
ParDrivers == {"preprocess_fold_parallel", "preprocess_non_overlap_fold_parallel"}
WindowedDrivers == {"preprocess_fold", "preprocess_fold_parallel"}

\* config['tfrecords_' + mode + '_fold'] + file.split('/')[-1] + ".tfrecords"
OutPath(file) == <<"tfrecords_fold/", file[Len(file)], ".tfrecords">>

\* the per-file writer a driver calls: the count it returns, or what it raises.
\* The writer opens its output before it reads the audio file.
WriterOutcome(driver, file, nrm, C) ==
    IF ~Readable(file) THEN [status |-> "IOError", total |-> 0]
    ELSE LET r == IF driver \in WindowedDrivers
                  THEN write_file_to_tfrecords(<<>>, FramesOf(file), nrm, C)
                  ELSE write_file_to_non_overlap_tfrecords(<<>>, FramesOf(file), nrm, C)
         IN  [status |-> r.status, total |-> r.total]

\* tf.python_io.TFRecordWriter(write_file) creates or truncates the file
RecordFile(file, total, closed) ==
    [path |-> OutPath(file), src |-> file, total |-> total, closed |-> closed]
PutFile(d, f) == {g \in d : g.path # f.path} \cup {f}

RECURSIVE SumSeq(_)
SumSeq(q) == IF q = <<>> THEN 0 ELSE Head(q) + SumSeq(Tail(q))

\* one pass of the loop "for file in filenames" of a sequential driver
SeqFileStep(acc, driver, file, nrm, C) ==
    LET r == WriterOutcome(driver, file, nrm, C)
    IN  IF r.status = "ok"
        THEN [status |-> "ok",
              total |-> acc.total + r.total,
              count |-> r.total,
              disk |-> PutFile(acc.disk, RecordFile(file, r.total, TRUE))]
        ELSE [status |-> r.status,
              total |-> acc.total,
              count |-> -1,
              disk |-> PutFile(acc.disk, RecordFile(file, r.total, FALSE))]

RECURSIVE SeqLoop(_, _, _, _, _)
SeqLoop(acc, driver, files, nrm, C) ==
    IF files = <<>> \/ acc.status # "ok" THEN acc
    ELSE SeqLoop(SeqFileStep(acc, driver, Head(files), nrm, C),
                 driver, Tail(files), nrm, C)

\* preprocess_fold / preprocess_non_overlap_fold as a function of the fold:
\* the record files left on disk and the metadata saved
preprocess_fold(driver, files, nrm, C) ==
    LET r == SeqLoop([status |-> "ok", total |-> 0, count |-> 0, disk |-> {}],
                     driver, files, nrm, C)
    IN  [status |-> r.status,
         disk |-> r.disk,
         metadata |-> IF r.status = "ok" THEN <<r.total>> ELSE <<>>]

\* Parallel(...) hands back the list of results once every task has returned
JoinReadyIgnoringFailures(ts) == \A i \in DOMAIN ts : ts[i] \in {"done", "failed"}
JoinReady(ts) == \A i \in DOMAIN ts : ts[i] = "done"

\* the sequential equivalent of a parallel driver
SeqOf(driver) ==
    IF driver = "preprocess_fold_parallel" THEN "preprocess_fold"
    ELSE IF driver = "preprocess_non_overlap_fold_parallel"
    THEN "preprocess_non_overlap_fold"
    ELSE driver

FoldLists == UNION {[1..k -> FoldPaths] : k \in 0..MaxFiles}

InitFold ==
    /\ op \in SeqDrivers \cup ParDrivers
    /\ filenames \in FoldLists
    /\ context_frames \in 1..MaxContext
    /\ norm \in BOOLEAN
    /\ num_cores \in (IF op \in ParDrivers THEN 1..MaxCores ELSE {1})
    /\ pc = "run"
    /\ invoked = <<>>
    /\ tasks = [i \in 1..Len(filenames) |-> "pending"]
    /\ returned = [i \in 1..Len(filenames) |-> -1]
    /\ total_examples_processed = 0
    /\ disk = {}
    /\ metadata = <<>>
    /\ wr_result = NoResult
    /\ GtIdle
    /\ ActIdle
    /\ AuxIdle
    /\ ToolIdle

\* for file in filenames: num_ex_processed = write_file_to_...(...);
\*     total_examples_processed = total_examples_processed + num_ex_processed
SeqWriteFile ==
    /\ op \in SeqDrivers
    /\ pc = "run"
    /\ Len(invoked) < Len(filenames)
    /\ LET i == Len(invoked) + 1
           r == SeqFileStep([status |-> "ok", total |-> total_examples_processed,
                             count |-> 0, disk |-> disk],
                            op, filenames[i], norm, context_frames)
       IN  /\ invoked' = Append(invoked, i)
           /\ disk' = r.disk
           /\ total_examples_processed' = r.total
           /\ returned' = [returned EXCEPT ![i] = r.count]
           /\ tasks' = [tasks EXCEPT ![i] = IF r.status = "ok" THEN "done" ELSE "failed"]
           /\ pc' = IF r.status = "ok" THEN "run" ELSE "raised"
    /\ UNCHANGED <<toolVars, auxVars, op, gtVars, wrVars, act, filenames, num_cores, metadata>>

\* np.savez(... + "total_examples_processed", total_examples_processed=...)
SeqSave ==
    /\ op \in SeqDrivers
    /\ pc = "run"
    /\ Len(invoked) = Len(filenames)
    /\ metadata' = Append(metadata, total_examples_processed)
    /\ pc' = "done"
    /\ UNCHANGED <<toolVars, auxVars, op, gtVars, wrVars, act, filenames, num_cores, invoked, tasks,
                   returned, total_examples_processed, disk>>

Running == {i \in DOMAIN tasks : tasks[i] = "running"}
Pending == {i \in DOMAIN tasks : tasks[i] = "pending"}

\* a free worker takes the next entry and parallel_loop opens its record file;
\* with a single job the tasks run inline, so none starts after a failure
ParTaskStart ==
    /\ op \in ParDrivers
    /\ pc = "run"
    /\ Pending # {}
    /\ Cardinality(Running) < num_cores
    /\ num_cores = 1 => \A i \in DOMAIN tasks : tasks[i] # "failed"
    /\ LET i == CHOOSE j \in Pending : \A k \in Pending : j <= k
       IN  /\ tasks' = [tasks EXCEPT ![i] = "running"]
           /\ invoked' = Append(invoked, i)
           /\ disk' = PutFile(disk, RecordFile(filenames[i], 0, FALSE))
    /\ UNCHANGED <<toolVars, auxVars, op, gtVars, wrVars, act, filenames, num_cores, pc, returned,
                   total_examples_processed, metadata>>

\* a running task returns its count, or raises
ParTaskFinish ==
    /\ op \in ParDrivers
    /\ pc = "run"
    /\ \E i \in Running :
         LET r == WriterOutcome(op, filenames[i], norm, context_frames)
         IN  IF r.status = "ok"
             THEN /\ tasks' = [tasks EXCEPT ![i] = "done"]
                  /\ returned' = [returned EXCEPT ![i] = r.total]
                  /\ disk' = PutFile(disk, RecordFile(filenames[i], r.total, TRUE))
             ELSE /\ tasks' = [tasks EXCEPT ![i] = "failed"]
                  /\ UNCHANGED <<returned, disk>>
    /\ UNCHANGED <<toolVars, auxVars, op, gtVars, wrVars, act, filenames, num_cores, pc, invoked,
                   total_examples_processed, metadata>>

\* Parallel(...) re-raises the exception of a failed task in the driver; the
\* tasks still running are abandoned
ParRaise ==
    /\ op \in ParDrivers
    /\ pc = "run"
    /\ \E i \in DOMAIN tasks : tasks[i] = "failed"
    /\ pc' = "raised"
    /\ UNCHANGED <<toolVars, auxVars, op, gtVars, wrVars, act, filenames, num_cores, invoked, tasks,
                   returned, total_examples_processed, disk, metadata>>

\* total_examples_processed = Parallel(...)(...); np.savez(..., np.sum(...))
ParSave ==
    /\ op \in ParDrivers
    /\ pc = "run"
    /\ JoinReady(tasks)
    /\ total_examples_processed' = SumSeq(returned)
    /\ metadata' = Append(metadata, SumSeq(returned))
    /\ pc' = "done"
    /\ UNCHANGED <<toolVars, auxVars, op, gtVars, wrVars, act, filenames, num_cores, invoked, tasks,
                   returned, disk>>

NextFold ==
    \/ SeqWriteFile
    \/ SeqSave
    \/ ParTaskStart
    \/ ParTaskFinish
    \/ ParRaise
    \/ ParSave

SpecFold == InitFold /\ [][NextFold]_vars

\* ------------------------------------------------------------------------
\* Chunked activation computation (ps_inference.py)
\* ------------------------------------------------------------------------

\* util.chunks: the chunking iterator of the utility library
util_chunks(seq, length) == ChunksFrom(seq, length, 0)

\* np.zeros([1, 88]): the placeholder row the accumulation buffers start with
ZeroActRow == [head |-> "zero", of |-> ZeroSpecRow]

\* get_activation(features, estimator_predictor): the predictor maps a chunk
\* to frame and onset probabilities of shape (1, rows, 88)
get_activation(features) ==
    [probabilities |->
        [i \in 1..Len(features) |-> [head |-> "frame", of |-> features[i]]],
     onset_probabilities |->
        [i \in 1..Len(features) |-> [head |-> "onset", of |-> features[i]]]]

\* np.squeeze drops every axis of length 1: (1, rows, 88) becomes (rows, 88),
\* and (1, 1, 88) becomes the vector (88,)
Squeeze(rows) ==
    IF Len(rows) = 1 THEN [ndim |-> 1, rows |-> <<>>]
    ELSE [ndim |-> 2, rows |-> rows]

\* np.append(buffer, arr, axis=0) needs arrays of the same number of axes
NpAppend(buffer, arr) ==
    IF arr.ndim = 2 THEN [status |-> "ok", rows |-> buffer \o arr.rows]
    ELSE [status |-> "ValueError", rows |-> buffer]

\* split_spec after the last chunk was zero-padded to context_frames rows
SplitSpec(F, C) == PadLast(util_chunks(Spectrogram(F), C), C, ZeroSpecRow)

\* note_activation[3:spec.shape[0]+3], onset_activation[1:spec.shape[0]+1]
FrameOffset == 3
OnsetOffset == 1

\* the symmetric window spec[frame - C : frame + C + 1] of a center frame
Window(spec, C, frame) == Slice(spec, frame - C, frame + C + 1)

\* note_activation[frame, :] = value, value being what a call returned: one
\* array fits into the row of 88; a tuple of several arrays is converted to an
\* array with one more leading axis, which cannot be broadcast into the row
SetRow(rows, frame, value) ==
    IF Cardinality(DOMAIN value) = 1
    THEN [status |-> "ok",
          rows |-> [rows EXCEPT ![frame + 1] = value[CHOOSE k \in DOMAIN value : TRUE]]]
    ELSE [status |-> "ValueError", rows |-> rows]

\* np.append(note_activation[8:], np.zeros([8, 88]), axis=0)
ShiftRows == 8
ShiftLeft(rows) ==
    SubSeq(rows, ShiftRows + 1, Len(rows)) \o [k \in 1..ShiftRows |-> ZeroActRow]

ActOps == {"spectrogram_to_non_overlap_note_activation",
           "spectrogram_to_note_activation"}

InitAct ==
    /\ op \in ActOps
    /\ n_frames \in 1..MaxActFrames
    /\ context_frames \in
         (IF op = "spectrogram_to_note_activation" THEN 0 ELSE 1)..MaxChunk
    /\ act = [pc |-> "loop", done |-> 0,
              note_activation |->
                  IF op = "spectrogram_to_note_activation"
                  THEN [k \in 1..n_frames |-> ZeroActRow]
                  ELSE <<ZeroActRow>>,
              onset_activation |->
                  IF op = "spectrogram_to_note_activation"
                  THEN <<>>
                  ELSE <<ZeroActRow>>,
              frame_out |-> <<>>, onset_out |-> <<>>]
    /\ notes = <<>>
    /\ is_chroma = FALSE
    /\ n_onset_plus = 0
    /\ gt_result = NoResult
    /\ norm = FALSE
    /\ wr_result = NoResult
    /\ FoldIdle
    /\ AuxIdle
    /\ ToolIdle

\* for frame in range(context_frames, spec.shape[0] - context_frames):
\*     note_activation[frame, :] = get_activation(window, estimator_predictor)
NoteActFrame ==
    /\ op = "spectrogram_to_note_activation"
    /\ act.pc = "loop"
    /\ context_frames + act.done < n_frames - context_frames
    /\ LET frame == context_frames + act.done
           value == get_activation(Window(Spectrogram(n_frames), context_frames, frame))
           r == SetRow(act.note_activation, frame, value)
       IN  IF r.status = "ok"
           THEN act' = [act EXCEPT !.done = @ + 1, !.note_activation = r.rows]
           ELSE act' = [act EXCEPT !.done = @ + 1, !.pc = r.status]
    /\ UNCHANGED <<toolVars, auxVars, op, gtVars, wrVars, foldVars>>

\* return np.append(note_activation[8:], np.zeros([8, 88]), axis=0)
NoteActReturn ==
    /\ op = "spectrogram_to_note_activation"
    /\ act.pc = "loop"
    /\ context_frames + act.done >= n_frames - context_frames
    /\ act' = [act EXCEPT !.pc = "done",
                          !.frame_out = ShiftLeft(act.note_activation)]
    /\ UNCHANGED <<toolVars, auxVars, op, gtVars, wrVars, foldVars>>

\* for split in split_spec: one predictor call, appended to both buffers
ActChunk ==
    /\ op = "spectrogram_to_non_overlap_note_activation"
    /\ act.pc = "loop"
    /\ act.done < Len(SplitSpec(n_frames, context_frames))
    /\ LET split == SplitSpec(n_frames, context_frames)[act.done + 1]
           p == get_activation(split)
           frame_act == Squeeze(p.probabilities)
           onset_act == Squeeze(p.onset_probabilities)
           na == NpAppend(act.note_activation, frame_act)
           oa == NpAppend(act.onset_activation, onset_act)
       IN  IF na.status = "ok" /\ oa.status = "ok"
           THEN act' = [act EXCEPT !.done = @ + 1,
                                   !.note_activation = na.rows,
                                   !.onset_activation = oa.rows]
           ELSE act' = [act EXCEPT !.pc = "ValueError"]
    /\ UNCHANGED <<toolVars, auxVars, op, gtVars, wrVars, foldVars>>

\* return note_activation[3:F+3], onset_activation[1:F+1]
ActReturn ==
    /\ op = "spectrogram_to_non_overlap_note_activation"
    /\ act.pc = "loop"
    /\ act.done = Len(SplitSpec(n_frames, context_frames))
    /\ act' = [act EXCEPT
                 !.pc = "done",
                 !.frame_out = Slice(act.note_activation, FrameOffset,
                                     n_frames + FrameOffset),
                 !.onset_out = Slice(act.onset_activation, OnsetOffset,
                                     n_frames + OnsetOffset)]
    /\ UNCHANGED <<toolVars, auxVars, op, gtVars, wrVars, foldVars>>

NextAct ==
    \/ ActChunk
    \/ ActReturn
    \/ NoteActFrame
    \/ NoteActReturn

SpecAct == InitAct /\ [][NextAct]_vars

\* ------------------------------------------------------------------------
\* Transcription of one piece (ps_inference.py)
\*
\* A probability is kept in tenths.  The predictor is a pair of sets: the
\* (feature row, key) cells for which the frame head, respectively the onset
\* head, outputs 0.5; for every other cell it outputs 0.4.  A piano roll is
\* its number of rows and the set of its (row, key) cells that hold True.
\* ------------------------------------------------------------------------
MaxTrFrames == 4
MaxTrChunk == 4
MaxHeuristic == 2

TrLabels == {0, 87}
FrameHighs == {{}, {<<3, 0>>}, {<<3, 0>>, <<4, 0>>}, {<<0, 87>>, <<4, 0>>}}
OnsetHighs == {{}, {<<1, 0>>}, {<<2, 0>>, <<3, 0>>}}

\* audio_config['fps'], and the keyword arguments of write_midi
Fps == 5
Velocity == 100
DurationTenths == 6

\* spectrogram_to_note_activation as a function of the feature matrix
RECURSIVE NoteActLoop(_, _, _, _)
NoteActLoop(acc, spec, C, frame) ==
    IF acc.status # "ok" \/ frame >= Len(spec) - C THEN acc
    ELSE NoteActLoop(SetRow(acc.rows, frame, get_activation(Window(spec, C, frame))),
                     spec, C, frame + 1)

spectrogram_to_note_activation(spec, C) ==
    LET r == NoteActLoop([status |-> "ok",
                          rows |-> [k \in 1..Len(spec) |-> ZeroActRow]], spec, C, C)
    IN  [status |-> r.status,
         note_activation |-> IF r.status = "ok" THEN ShiftLeft(r.rows) ELSE <<>>]

\* spectrogram_to_non_overlap_note_activation as a function of the feature matrix
RECURSIVE ChunkLoop(_, _)
ChunkLoop(acc, split_spec) ==
    IF acc.status # "ok" \/ split_spec = <<>> THEN acc
    ELSE LET p == get_activation(Head(split_spec))
             na == NpAppend(acc.note_activation, Squeeze(p.probabilities))
             oa == NpAppend(acc.onset_activation, Squeeze(p.onset_probabilities))
         IN  IF na.status = "ok" /\ oa.status = "ok"
             THEN ChunkLoop([status |-> "ok", note_activation |-> na.rows,
                             onset_activation |-> oa.rows], Tail(split_spec))
             ELSE [acc EXCEPT !.status = "ValueError"]

spectrogram_to_non_overlap_note_activation(spec, C) ==
    LET r == ChunkLoop([status |-> "ok", note_activation |-> <<ZeroActRow>>,
                        onset_activation |-> <<ZeroActRow>>],
                       PadLast(util_chunks(spec, C), C, ZeroSpecRow))
    IN  IF r.status = "ok"
        THEN [status |-> "ok",
              note_activation |-> Slice(r.note_activation, FrameOffset,
                                        Len(spec) + FrameOffset),
              onset_activation |-> Slice(r.onset_activation, OnsetOffset,
                                         Len(spec) + OnsetOffset)]
        ELSE [status |-> r.status, note_activation |-> <<>>, onset_activation |-> <<>>]

\* the probability, in tenths, of key l in an output row
ProbTenths(row, l, predictor) ==
    IF row.head = "zero" THEN 0
    ELSE IF <<row.of.num, l>> \in predictor[row.head] THEN 5 ELSE 4

\* np.greater_equal(activation, 0.5)
GreaterEqualHalf(rows, predictor) ==
    [rows |-> Len(rows),
     cells |-> {c \in (0..(Len(rows) - 1)) \X TrLabels :
                   ProbTenths(rows[c[1] + 1], c[2], predictor) >= 5}]

\* np.logical_or(a, b): the row counts must be equal or one of them be 1
Broadcast(a, n) ==
    IF a.rows = n THEN a.cells
    ELSE {<<r, c[2]>> : r \in 0..(n - 1), c \in a.cells}
LogicalOr(a, b) ==
    IF a.rows = b.rows \/ a.rows = 1 \/ b.rows = 1
    THEN LET n == IF a.rows = 1 THEN b.rows ELSE a.rows
         IN  [status |-> "ok", rows |-> n,
              cells |-> Broadcast(a, n) \cup Broadcast(b, n)]
    ELSE [status |-> "ValueError", rows |-> 0, cells |-> {}]

\* util.pianoroll_to_interval_sequence for one key: the runs of active frames,
\* a run being split at every frame flagged in onset_predictions
RECURSIVE RunsFrom(_, _, _, _, _)
RunsFrom(active, onsets, n, f, start) ==
    IF f >= n
    THEN IF start >= 0 THEN {<<start, n>>} ELSE {}
    ELSE IF f \notin active
    THEN (IF start >= 0 THEN {<<start, f>>} ELSE {})
             \cup RunsFrom(active, onsets, n, f + 1, -1)
    ELSE IF start < 0 THEN RunsFrom(active, onsets, n, f + 1, f)
    ELSE IF f \in onsets
    THEN {<<start, f>>} \cup RunsFrom(active, onsets, n, f + 1, f)
    ELSE RunsFrom(active, onsets, n, f + 1, start)

\* the interval [start / fps, end / fps) and pitch = column + min_midi_pitch
pianoroll_to_interval_sequence(pianoroll, onset_predictions) ==
    UNION {{[onset |-> run[1], offset |-> run[2], pitch |-> l + MinPitch] :
               run \in RunsFrom({c[1] : c \in {d \in pianoroll.cells : d[2] = l}},
                                {c[1] : c \in {d \in onset_predictions : d[2] = l}},
                                pianoroll.rows, 0, -1)} : l \in TrLabels}

\* np.stack((intervals[:, 0], pitches, intervals[:, 1] - intervals[:, 0]), axis=1):
\* rows 'onset time' 'note number' 'duration', times in frames of 1 / fps s
StackNotes(intervals) ==
    {[onset |-> i.onset, pitch |-> i.pitch, duration |-> i.offset - i.onset] :
        i \in intervals}

\* madmom.io.midi.write_midi(notes, name, duration=0.6, velocity=100): the
\* keyword values fill in the columns the note rows do not have; a duration
\* is kept as the fraction num / den of a second
WriteMidiFixed(rows, duration_tenths, velocity) ==
    {[onset |-> n.onset, pitch |-> n.pitch,
      duration |-> [num |-> duration_tenths, den |-> 10],
      velocity |-> velocity] : n \in rows}
WriteMidi(rows, duration_tenths, velocity) ==
    {[onset |-> n.onset, pitch |-> n.pitch,
      duration |-> IF "duration" \in DOMAIN n
                   THEN [num |-> n.duration, den |-> Fps]
                   ELSE [num |-> duration_tenths, den |-> 10],
      velocity |-> IF "velocity" \in DOMAIN n THEN n.velocity ELSE velocity] :
        n \in rows}

\* save_dir + (audio_file.split('/')[-1]).split('.')[0] + suffix
AudioFile == <<"dir", "piece.wav">>
Stem(name) == IF name = "piece.wav" THEN "piece" ELSE name
OutName(suffix) == <<"save_dir/", Stem(AudioFile[Len(AudioFile)]), suffix>>

NoRoll == [rows |-> 0, cells |-> {}]

InitTranscribe ==
    /\ op = "transcribe_piano_piece"
    /\ n_frames \in 1..MaxTrFrames
    /\ context_frames \in 1..MaxTrChunk
    /\ norm \in BOOLEAN
    /\ \E use_rnn \in BOOLEAN, h \in 0..MaxHeuristic,
          fh \in FrameHighs, oh \in OnsetHighs :
         tr = [pc |-> "features",
               use_rnn |-> use_rnn,
               onset_duration_heuristic |-> h,
               predictor |-> [frame |-> fh, onset |-> oh],
               bound |-> {},
               spectrogram |-> <<>>,
               note_activation |-> <<>>,
               onset_activation |-> <<>>,
               frames |-> NoRoll,
               onset_predictions |-> NoRoll,
               onset_predictions_with_heuristic |-> NoRoll,
               frames_with_onset |-> NoRoll,
               frames_with_onset_heuristic |-> NoRoll,
               notes |-> {},
               notes_onset_pred |-> {},
               notes_onset_pred_heuristic |-> {},
               files |-> <<>>]
    /\ notes = <<>>
    /\ is_chroma = FALSE
    /\ n_onset_plus = 0
    /\ gt_result = NoResult
    /\ wr_result = NoResult
    /\ FoldIdle
    /\ ActIdle
    /\ net = Idle
    /\ sched = Idle
    /\ gen = Idle
    /\ hp = Idle
    /\ jm = Idle
    /\ ToolIdle

TrUnchanged == UNCHANGED <<toolVars, op, gtVars, wrVars, foldVars, act, net, sched, gen, hp, jm>>

\* spectrogram = prep.wav_to_spec(...); if norm: spectrogram = np.divide(...)
TrFeatures ==
    /\ op = "transcribe_piano_piece"
    /\ tr.pc = "features"
    /\ tr' = [tr EXCEPT !.pc = "inference",
                        !.bound = @ \cup {"spectrogram"},
                        !.spectrogram = IF norm THEN Normalize(Spectrogram(n_frames))
                                        ELSE Spectrogram(n_frames)]
    /\ TrUnchanged

\* if use_rnn: note_activation, onset_activation = spectrogram_to_non_overlap_...
\* else: note_activation = spectrogram_to_note_activation(...)
TrInference ==
    /\ op = "transcribe_piano_piece"
    /\ tr.pc = "inference"
    /\ IF tr.use_rnn
       THEN LET r == spectrogram_to_non_overlap_note_activation(tr.spectrogram,
                                                                context_frames)
            IN  IF r.status = "ok"
                THEN tr' = [tr EXCEPT !.pc = "binarize",
                                      !.bound = @ \cup {"note_activation",
                                                        "onset_activation"},
                                      !.note_activation = r.note_activation,
                                      !.onset_activation = r.onset_activation]
                ELSE tr' = [tr EXCEPT !.pc = r.status]
       ELSE LET r == spectrogram_to_note_activation(tr.spectrogram, context_frames)
            IN  IF r.status = "ok"
                THEN tr' = [tr EXCEPT !.pc = "binarize",
                                      !.bound = @ \cup {"note_activation"},
                                      !.note_activation = r.note_activation]
                ELSE tr' = [tr EXCEPT !.pc = r.status]
    /\ TrUnchanged

\* frames = np.greater_equal(note_activation, 0.5); rnn_act_fn = rnn_processor(..)
TrBinarize ==
    /\ op = "transcribe_piano_piece"
    /\ tr.pc = "binarize"
    /\ tr' = [tr EXCEPT !.pc = "onsets",
                        !.bound = @ \cup {"frames", "rnn_act_fn"},
                        !.frames = GreaterEqualHalf(tr.note_activation, tr.predictor)]
    /\ TrUnchanged

\* onset_predictions = np.greater_equal(onset_activation, 0.5)
\* onset_predictions_with_heuristic = np.greater_equal(onset_activation, 0.5)
\* frames_with_onset = np.logical_or(frames, onset_predictions)
\* frames_with_onset_heuristic = np.logical_or(frames, onset_predictions_with_..)
TrOnsets ==
    /\ op = "transcribe_piano_piece"
    /\ tr.pc = "onsets"
    /\ IF "onset_activation" \notin tr.bound
       THEN tr' = [tr EXCEPT !.pc = "UnboundLocalError"]
       ELSE LET onset_predictions == GreaterEqualHalf(tr.onset_activation, tr.predictor)
                onset_predictions_with_heuristic ==
                    GreaterEqualHalf(tr.onset_activation, tr.predictor)
                frames_with_onset == LogicalOr(tr.frames, onset_predictions)
                frames_with_onset_heuristic ==
                    LogicalOr(tr.frames, onset_predictions_with_heuristic)
            IN  IF frames_with_onset.status # "ok"
                THEN tr' = [tr EXCEPT !.pc = frames_with_onset.status]
                ELSE tr' = [tr EXCEPT
                       !.pc = "intervals",
                       !.onset_predictions = onset_predictions,
                       !.onset_predictions_with_heuristic =
                            onset_predictions_with_heuristic,
                       !.frames_with_onset =
                            [rows |-> frames_with_onset.rows,
                             cells |-> frames_with_onset.cells],
                       !.frames_with_onset_heuristic =
                            [rows |-> frames_with_onset_heuristic.rows,
                             cells |-> frames_with_onset_heuristic.cells]]
    /\ TrUnchanged

\* the three calls of util.pianoroll_to_interval_sequence and the np.stack of
\* each result into note rows
TrIntervals ==
    /\ op = "transcribe_piano_piece"
    /\ tr.pc = "intervals"
    /\ tr' = [tr EXCEPT
         !.pc = "midi",
         !.notes = StackNotes(pianoroll_to_interval_sequence(tr.frames, {})),
         !.notes_onset_pred =
              StackNotes(pianoroll_to_interval_sequence(
                             tr.frames_with_onset, tr.onset_predictions.cells)),
         !.notes_onset_pred_heuristic =
              StackNotes(pianoroll_to_interval_sequence(
                             tr.frames_with_onset_heuristic,
                             tr.onset_predictions.cells))]
    /\ TrUnchanged

\* the three calls of madmom.io.midi.write_midi, in source order
TrWriteMidi ==
    /\ op = "transcribe_piano_piece"
    /\ tr.pc = "midi"
    /\ LET k == Len(tr.files)
           rows == IF k = 0 THEN tr.notes
                   ELSE IF k = 1 THEN tr.notes_onset_pred
                   ELSE tr.notes_onset_pred_heuristic
           suffix == IF k = 0 THEN "_noOnset.mid"
                     ELSE IF k = 1 THEN "_onsetPrediction.mid"
                     ELSE "_onsetHeuristic.mid"
       IN  tr' = [tr EXCEPT
                    !.pc = IF k = 2 THEN "archive" ELSE "midi",
                    !.files = Append(@, [name |-> OutName(suffix),
                                         kind |-> "midi",
                                         notes |-> WriteMidi(rows, DurationTenths,
                                                             Velocity),
                                         fields |-> {}])]
    /\ TrUnchanged

\* savemat(save_dir + stem, {"note_activation": .., "spec": .., "onset_act_fn": ..})
TrSaveMat ==
    /\ op = "transcribe_piano_piece"
    /\ tr.pc = "archive"
    /\ tr' = [tr EXCEPT
                !.pc = "done",
                !.files = Append(@, [name |-> OutName(".mat"),
                                     kind |-> "archive",
                                     notes |-> {},
                                     fields |-> {"note_activation", "spec",
                                                 "onset_act_fn"}])]
    /\ TrUnchanged

NextTranscribe ==
    \/ TrFeatures
    \/ TrInference
    \/ TrBinarize
    \/ TrOnsets
    \/ TrIntervals
    \/ TrWriteMidi
    \/ TrSaveMat

SpecTranscribe == InitTranscribe /\ [][NextTranscribe]_vars

\* ------------------------------------------------------------------------
\* Model function core (ps_model.py, conv_net_init)
\*
\* A tensor is its graph name and the value of one of its elements, in tenths.
\* A natural logarithm is kept in thousandths, a loss in ten-thousandths.
\* ------------------------------------------------------------------------
Modes == {"TRAIN", "EVAL", "PREDICT"}
LabelValues == {0, 10}
ProbValues == {2, 5}
\* epsilon = clip_norm, in tenths
ClipNormTenths == 1

Tensor(name, value) == [name |-> name, value |-> value]

\* tf.log of an argument given in tenths
Ln1000(x) ==
    CASE x = 1 -> -2303
      [] x = 3 -> -1204
      [] x = 6 -> -511
      [] x = 9 -> -105
      [] x = 11 -> 95

\* log_loss(labels, predictions, epsilon):
\* -labels * log(predictions + epsilon) - (1 - labels) * log(1 - predictions + epsilon)
log_loss(labels, predictions, epsilon) ==
    [labels |-> labels.name,
     predictions |-> predictions.name,
     value |-> -(labels.value * Ln1000(predictions.value + epsilon))
               - ((10 - labels.value) * Ln1000(10 - predictions.value + epsilon))]

\* tf.cast(tf.greater_equal(combined_probs, 0.5), tf.float32)
ClassesGreater(t) ==
    [name |-> "greater_equal_0.5", of |-> t.name,
     value |-> IF t.value > 5 THEN 10 ELSE 0]
Classes(t) ==
    [name |-> "greater_equal_0.5", of |-> t.name,
     value |-> IF t.value >= 5 THEN 10 ELSE 0]

NoTensor == Tensor("unbound", 0)

InitNet ==
    /\ op = "conv_net_init"
    /\ \E mode \in Modes, use_rnn \in BOOLEAN, has_labels \in BOOLEAN,
          yf \in LabelValues, yo \in LabelValues :
         net = [pc |-> "labels",
                mode |-> mode,
                use_rnn |-> use_rnn,
                labels |-> IF has_labels
                           THEN [frames |-> yf, onset |-> yo]
                           ELSE [frames |-> -1, onset |-> -1],
                labels_read |-> FALSE,
                bound |-> {},
                label_frames |-> NoTensor,
                label_onset |-> NoTensor,
                probs_subdiv_1 |-> NoTensor,
                probs_subdiv_2 |-> NoTensor,
                combined_probs |-> NoTensor,
                losses |-> <<>>,
                loss |-> 0,
                train_op |-> "none",
                predictions |-> <<>>,
                export_outputs |-> {},
                returned |-> FALSE]
    /\ GtIdle
    /\ WrIdle
    /\ FoldIdle
    /\ ActIdle
    /\ tr = Idle
    /\ sched = Idle
    /\ gen = Idle
    /\ hp = Idle
    /\ jm = Idle
    /\ ToolIdle

NetUnchanged == UNCHANGED <<toolVars, op, gtVars, wrVars, foldVars, act, tr, sched, gen, hp, jm>>

\* if mode != PREDICT: labels_unstacked = tf.unstack(labels, axis=1); ...
NetLabels ==
    /\ op = "conv_net_init"
    /\ net.pc = "labels"
    /\ IF net.mode = "PREDICT"
       THEN net' = [net EXCEPT !.pc = "network"]
       ELSE IF net.labels.frames < 0
       THEN net' = [net EXCEPT !.pc = "ValueError", !.labels_read = TRUE]
       ELSE net' = [net EXCEPT
                      !.pc = "network",
                      !.labels_read = TRUE,
                      !.bound = @ \cup {"label_frames", "label_onset"},
                      !.label_frames = Tensor("label_frames", net.labels.frames),
                      !.label_onset = Tensor("label_onset", net.labels.onset)]
    /\ NetUnchanged

\* if use_rnn: the 'frames' and 'onsets' sub-networks; else: the plain resnet
NetNetwork ==
    /\ op = "conv_net_init"
    /\ net.pc = "network"
    /\ IF net.use_rnn
       THEN \E p1 \in ProbValues, p2 \in ProbValues :
              net' = [net EXCEPT
                        !.pc = "fusion",
                        !.bound = @ \cup {"probs_subdiv_1", "probs_subdiv_2"},
                        !.probs_subdiv_1 = Tensor("probs_subdiv_1", p1),
                        !.probs_subdiv_2 = Tensor("probs_subdiv_2", p2)]
       ELSE net' = [net EXCEPT !.pc = "fusion", !.bound = @ \cup {"logits"}]
    /\ NetUnchanged

\* the names lines 224-225 read
FusionInputsNone == {}
FusionInputs == {"probs_subdiv_1", "probs_subdiv_2"}

\* probs.append(tf.stop_gradient(probs_subdiv_1)); ...; combined_probs =
\* slim.fully_connected(tf.concat(probs, axis=2), 88, activation_fn=tf.sigmoid)
NetFusion ==
    /\ op = "conv_net_init"
    /\ net.pc = "fusion"
    /\ IF ~(FusionInputs \subseteq net.bound)
       THEN net' = [net EXCEPT !.pc = "NameError"]
       ELSE \E pc_ \in ProbValues :
              net' = [net EXCEPT
                        !.pc = "predictions",
                        !.bound = @ \cup {"combined_probs"},
                        !.combined_probs = Tensor("combined_probs", pc_)]
    /\ NetUnchanged

\* predictions = {...}; if mode == PREDICT: return EstimatorSpec(mode,
\* predictions, export_outputs={'predictions': PredictOutput(predictions)})
NetPredictions ==
    /\ op = "conv_net_init"
    /\ net.pc = "predictions"
    /\ LET predictions ==
               [classes |-> Classes(net.combined_probs),
                probabilities |-> net.combined_probs,
                onset_probabilities |-> net.probs_subdiv_2,
                logits |-> net.combined_probs]
       IN  IF net.mode = "PREDICT"
           THEN net' = [net EXCEPT !.pc = "done",
                                   !.predictions = predictions,
                                   !.export_outputs = {"predictions"},
                                   !.returned = TRUE]
           ELSE net' = [net EXCEPT !.pc = "loss", !.predictions = predictions]
    /\ NetUnchanged

RECURSIVE SumValues(_)
SumValues(q) == IF q = <<>> THEN 0 ELSE Head(q).value + SumValues(Tail(q))

\* the three log_loss calls, the three tf.losses.add_loss(tf.reduce_mean(..))
\* and loss = tf.losses.get_total_loss()
NetLoss ==
    /\ op = "conv_net_init"
    /\ net.pc = "loss"
    /\ IF ~net.use_rnn
       THEN net' = [net EXCEPT !.pc = "NameError"]
       ELSE LET individual_loss_subdiv_1 ==
                    log_loss(net.label_frames, net.probs_subdiv_1, ClipNormTenths)
                individual_loss_subdiv_2 ==
                    log_loss(net.label_onset, net.probs_subdiv_2, ClipNormTenths)
                frame_losses ==
                    log_loss(net.combined_probs, net.label_frames, ClipNormTenths)
                losses == <<individual_loss_subdiv_1, individual_loss_subdiv_2,
                            frame_losses>>
            IN  net' = [net EXCEPT !.pc = "train",
                                   !.losses = losses,
                                   !.loss = SumValues(losses)]
    /\ NetUnchanged

\* if mode == TRAIN: ... train_op = slim.learning.create_train_op(loss, ...)
\* else: train_op = None
NetTrainOp ==
    /\ op = "conv_net_init"
    /\ net.pc = "train"
    /\ net' = [net EXCEPT !.pc = "metrics",
                          !.train_op = IF net.mode = "TRAIN" THEN "train_op"
                                       ELSE "none"]
    /\ NetUnchanged

\* the metrics and return tf.estimator.EstimatorSpec(mode, predictions, loss,
\* train_op, eval_metric_ops)
NetReturn ==
    /\ op = "conv_net_init"
    /\ net.pc = "metrics"
    /\ net' = [net EXCEPT !.pc = "done", !.returned = TRUE]
    /\ NetUnchanged

NextNet ==
    \/ NetLabels
    \/ NetNetwork
    \/ NetFusion
    \/ NetPredictions
    \/ NetLoss
    \/ NetTrainOp
    \/ NetReturn

SpecNet == InitNet /\ [][NextNet]_vars

\* ------------------------------------------------------------------------
\* Cyclical schedule (ps_model.py, cycle_fn)
\*
\* batches_per_epoch is kept in halves, so that int(batches_per_epoch * epoch)
\* has a fraction to truncate.
\* ------------------------------------------------------------------------
MaxBatchHalves == 6
MaxEpoch == 3

\* boundary_epochs: one or two increasing epochs
BoundaryEpochs ==
    {<<e>> : e \in 1..MaxEpoch}
        \cup {<<e[1], e[2]>> : e \in {x \in (1..MaxEpoch) \X (1..MaxEpoch) : x[1] < x[2]}}

\* the global steps a schedule is asked for
Steps == 0..((MaxBatchHalves * MaxEpoch) \div 2 + 1)

\* int(batches_per_epoch * epoch)
IntProduct(batch_halves, epoch) == (batch_halves * epoch) \div 2

\* tf.train.piecewise_constant(x, boundaries, values): values[0] when
\* x <= boundaries[0], values[i] when boundaries[i-1] < x <= boundaries[i],
\* values[-1] when x > boundaries[-1]
PiecewiseConstantHalfOpen(x, boundaries, values) ==
    values[1 + Cardinality({j \in DOMAIN boundaries : boundaries[j] <= x})]
PiecewiseConstant(x, boundaries, values) ==
    values[1 + Cardinality({j \in DOMAIN boundaries : boundaries[j] < x})]

InitSched ==
    /\ op = "cycle_fn"
    /\ \E b \in 2..MaxBatchHalves, e \in BoundaryEpochs :
         sched = [pc |-> "build",
                  cycle_factor |-> [i \in 1..(Len(e) + 1) |-> 100 + i - 1],
                  batch_halves |-> b,
                  boundary_epochs |-> e,
                  boundaries |-> <<>>,
                  vals |-> <<>>,
                  global_step |-> -1,
                  rate |-> -1]
    /\ GtIdle
    /\ WrIdle
    /\ FoldIdle
    /\ ActIdle
    /\ tr = Idle
    /\ net = Idle
    /\ gen = Idle
    /\ hp = Idle
    /\ jm = Idle
    /\ ToolIdle

SchedUnchanged == UNCHANGED <<toolVars, op, gtVars, wrVars, foldVars, act, tr, net, gen, hp, jm>>

\* boundaries = [int(batches_per_epoch * epoch) for epoch in boundary_epochs]
\* vals = [learning_rate for learning_rate in cycle_factor]
CycleFn ==
    /\ op = "cycle_fn"
    /\ sched.pc = "build"
    /\ sched' = [sched EXCEPT
                   !.pc = "built",
                   !.boundaries = [j \in DOMAIN sched.boundary_epochs |->
                                      IntProduct(sched.batch_halves,
                                                 sched.boundary_epochs[j])],
                   !.vals = sched.cycle_factor]
    /\ SchedUnchanged

\* cycle_rate_fn(global_step)
CycleRateFn ==
    /\ op = "cycle_fn"
    /\ sched.pc = "built"
    /\ \E step \in Steps :
         sched' = [sched EXCEPT
                     !.global_step = step,
                     !.rate = PiecewiseConstant(step, sched.boundaries, sched.vals)]
    /\ SchedUnchanged

NextSched ==
    \/ CycleFn
    \/ CycleRateFn

SpecSched == InitSched /\ [][NextSched]_vars

\* ------------------------------------------------------------------------
\* The chunking iterator (ps_preprocessing.py, chunks)
\*
\* chunks is a generator function: a call creates an iterator and runs no
\* code; each next() runs the loop up to its next yield.
\* ------------------------------------------------------------------------
MaxSeqLen == 4
MaxChunkLen == 3
MaxIterators == 2

\* for index in range(0, len(sequence), length): the index after a yield
NextIndexOverlapping(index, length) == index + 1
NextIndex(index, length) == index + length

InitGen ==
    /\ op = "chunks"
    /\ \E n \in 0..MaxSeqLen, length \in 1..MaxChunkLen :
         gen = [pc |-> "ready",
                sequence |-> [i \in 1..n |-> 10 + i],
                length |-> length,
                iterators |-> <<>>]
    /\ GtIdle
    /\ WrIdle
    /\ FoldIdle
    /\ ActIdle
    /\ tr = Idle
    /\ net = Idle
    /\ sched = Idle
    /\ hp = Idle
    /\ jm = Idle
    /\ ToolIdle

GenUnchanged == UNCHANGED <<toolVars, op, gtVars, wrVars, foldVars, act, tr, net, sched, hp, jm>>

\* chunks(sequence, length): a new iterator, positioned before the loop
ChunksCall ==
    /\ op = "chunks"
    /\ Len(gen.iterators) < MaxIterators
    /\ gen' = [gen EXCEPT !.iterators =
                  Append(@, [index |-> 0, yielded |-> <<>>, exhausted |-> FALSE])]
    /\ GenUnchanged

\* next(iterator): yield sequence[index:index + length], or StopIteration when
\* the range is used up
ChunksNext ==
    /\ op = "chunks"
    /\ \E k \in DOMAIN gen.iterators :
         LET it == gen.iterators[k]
         IN  /\ ~it.exhausted
             /\ IF it.index < Len(gen.sequence)
                THEN gen' = [gen EXCEPT !.iterators[k] =
                        [index |-> NextIndex(it.index, gen.length),
                         yielded |-> Append(it.yielded,
                                            Slice(gen.sequence, it.index,
                                                  it.index + gen.length)),
                         exhausted |-> FALSE]]
                ELSE gen' = [gen EXCEPT !.iterators[k].exhausted = TRUE]
    /\ GenUnchanged

NextGen ==
    \/ ChunksCall
    \/ ChunksNext

SpecGen == InitGen /\ [][NextGen]_vars

\* ------------------------------------------------------------------------
\* Octave-wise HPCP features (ps_preprocessing.py, wav_to_hpcp)
\*
\* A band is the index of its (fmin, fmax) pair; the feature matrix is the
\* sequence of the column blocks appended to it.
\* ------------------------------------------------------------------------
MaxBands == 5
MaxClasses == 7

\* for index in range(1, len(fmin) - 1)
MiddleBandsAll(n) == 1..(n - 1)
MiddleBands(n) == 1..(n - 2)

\* [:, :int(audio_options['num_classes'] / 3)]
LastColumns(num_classes) == num_classes \div 3

\* the map of ppp.get_hpcp_parameters(): per-band arrays fmin and fmax, and
\* num_classes.  Whether the accessor hands out its table or a new map on
\* every call is not fixed by the source: hp.shared covers both.
NoArray == [kind |-> "none", len |-> 0, band |-> 0]
HpcpParameters(B, N) ==
    [fmin |-> [kind |-> "array", len |-> B, band |-> 0],
     fmax |-> [kind |-> "array", len |-> B, band |-> 0],
     num_classes |-> N]

\* the number of calls of wav_to_hpcp in a behaviour
HpcpCalls == 2

InitHpcp ==
    /\ op = "wav_to_hpcp"
    /\ \E B \in 1..MaxBands, N \in 1..MaxClasses, shared \in BOOLEAN :
         hp = [pc |-> "call",
               registry |-> HpcpParameters(B, N),
               shared |-> shared,
               call |-> 1,
               obtained |-> <<>>,
               audio_options |-> HpcpParameters(B, N),
               fmin |-> NoArray,
               bands |-> B,
               index |-> 1,
               hpcp |-> <<>>]
    /\ GtIdle
    /\ WrIdle
    /\ FoldIdle
    /\ ActIdle
    /\ tr = Idle
    /\ net = Idle
    /\ sched = Idle
    /\ gen = Idle
    /\ jm = Idle
    /\ ToolIdle

HpcpUnchanged == UNCHANGED <<toolVars, op, gtVars, wrVars, foldVars, act, tr, net, sched, gen, jm>>

\* audio_options['fmin'] = fmin[band]; audio_options['fmax'] = fmax[band]
SetBand(options, band) ==
    [options EXCEPT !.fmin = [kind |-> "scalar", len |-> 0, band |-> band],
                    !.fmax = [kind |-> "scalar", len |-> 0, band |-> band]]

\* np.array(hpcp_processor(audio_filename, **audio_options)): one block of
\* num_classes columns for the band the options select
HpcpBlock(options) == [band |-> options.fmin.band, columns |-> options.num_classes]

\* an assignment to an entry of audio_options also changes the accessor's
\* table when the two are the same object
Registry(options) == IF hp.shared THEN options ELSE hp.registry

\* audio_options = ppp.get_hpcp_parameters(); fmin = audio_options['fmin'];
\* fmax = audio_options['fmax']
HpcpCall ==
    /\ op = "wav_to_hpcp"
    /\ hp.pc = "call"
    /\ hp' = [hp EXCEPT !.pc = "first",
                        !.audio_options = hp.registry,
                        !.obtained = Append(@, hp.registry),
                        !.fmin = hp.registry.fmin,
                        !.index = 1,
                        !.hpcp = <<>>]
    /\ HpcpUnchanged

\* audio_options['fmin'] = fmin[0]; audio_options['fmax'] = fmax[0]: a
\* scalar cannot be indexed;
\* hpcp = np.array(hpcp_processor(audio_filename, **audio_options))
HpcpFirst ==
    /\ op = "wav_to_hpcp"
    /\ hp.pc = "first"
    /\ IF hp.fmin.kind # "array"
       THEN hp' = [hp EXCEPT !.pc = "raised"]
       ELSE LET options == SetBand(hp.audio_options, 1)
            IN  hp' = [hp EXCEPT !.pc = "middle",
                                 !.audio_options = options,
                                 !.registry = Registry(options),
                                 !.hpcp = <<HpcpBlock(options)>>]
    /\ HpcpUnchanged

\* one pass of the loop over the middle bands
HpcpMiddle ==
    /\ op = "wav_to_hpcp"
    /\ hp.pc = "middle"
    /\ hp.index \in MiddleBands(hp.bands)
    /\ LET options == SetBand(hp.audio_options, hp.index + 1)
       IN  hp' = [hp EXCEPT !.index = @ + 1,
                            !.audio_options = options,
                            !.registry = Registry(options),
                            !.hpcp = Append(@, HpcpBlock(options))]
    /\ HpcpUnchanged

\* audio_options['fmin'] = fmin[-1]; ...; the last band's block is cut to
\* int(num_classes / 3) columns and appended
HpcpLast ==
    /\ op = "wav_to_hpcp"
    /\ hp.pc = "middle"
    /\ hp.index \notin MiddleBands(hp.bands)
    /\ LET options == SetBand(hp.audio_options, hp.bands)
       IN  hp' = [hp EXCEPT
                    !.pc = "post",
                    !.audio_options = options,
                    !.registry = Registry(options),
                    !.hpcp = Append(@, [band |-> HpcpBlock(options).band,
                                        columns |-> Min(HpcpBlock(options).columns,
                                                        LastColumns(options.num_classes))])]
    /\ HpcpUnchanged

\* hpcp = np.log10(hpcp + 1.0); hpcp = hpcp / np.max(hpcp); return hpcp
HpcpReturn ==
    /\ op = "wav_to_hpcp"
    /\ hp.pc = "post"
    /\ hp' = [hp EXCEPT !.pc = "done"]
    /\ HpcpUnchanged

\* the next call of wav_to_hpcp in the same process
HpcpAgain ==
    /\ op = "wav_to_hpcp"
    /\ hp.pc = "done"
    /\ hp.call < HpcpCalls
    /\ hp' = [hp EXCEPT !.pc = "call", !.call = @ + 1]
    /\ HpcpUnchanged

NextHpcp ==
    \/ HpcpCall
    \/ HpcpAgain
    \/ HpcpFirst
    \/ HpcpMiddle
    \/ HpcpLast
    \/ HpcpReturn

SpecHpcp == InitHpcp /\ [][NextHpcp]_vars

\* ------------------------------------------------------------------------
\* JAMS conversion of a folder (ps_preprocessing.py, convert_jams_to_midi)
\*
\* A file name is the sequence of its parts between the "." separators.
\* ------------------------------------------------------------------------
JamsNames == {<<"a", "jams">>, <<"a", "b", "jams">>, <<"a", "c", "jams">>,
              <<"d", "jams">>, <<"d", "mid">>, <<"e", "jams", "bak">>}

\* name.endswith(".jams")
EndsWithJams(name) == Len(name) >= 2 /\ name[Len(name)] = "jams"

\* midi_filepath = filepath.split(".")[0] ... + ".mid"
MidiName(name) == <<name[1], "mid">>

InitJams ==
    /\ op = "convert_jams_to_midi"
    /\ \E folder \in SUBSET JamsNames :
         jm = [pc |-> "list", folder |-> folder, files |-> {}, converted |-> {},
               written |-> {}]
    /\ GtIdle
    /\ WrIdle
    /\ FoldIdle
    /\ ActIdle
    /\ tr = Idle
    /\ net = Idle
    /\ sched = Idle
    /\ gen = Idle
    /\ hp = Idle
    /\ ToolIdle

JamsUnchanged == UNCHANGED <<toolVars, op, gtVars, wrVars, foldVars, act, tr, net, sched, gen, hp>>

\* files = [name for name in os.listdir(folder) if name.endswith(".jams")]
JamsList ==
    /\ op = "convert_jams_to_midi"
    /\ jm.pc = "list"
    /\ jm' = [jm EXCEPT !.pc = "loop",
                        !.files = {name \in jm.folder : EndsWithJams(name)}]
    /\ JamsUnchanged

\* one pass of "for filepath in files", in the order os.listdir produced:
\* midi = jams_to_midi(filepath, q); midi.write(midi_filepath)
JamsConvert ==
    /\ op = "convert_jams_to_midi"
    /\ jm.pc = "loop"
    /\ \E filepath \in jm.files \ jm.converted :
         jm' = [jm EXCEPT
                  !.converted = @ \cup {filepath},
                  !.written = {w \in @ : w.path # MidiName(filepath)}
                                  \cup {[path |-> MidiName(filepath),
                                         src |-> filepath]}]
    /\ JamsUnchanged

\* the loop is used up
JamsReturn ==
    /\ op = "convert_jams_to_midi"
    /\ jm.pc = "loop"
    /\ jm.files = jm.converted
    /\ jm' = [jm EXCEPT !.pc = "done"]
    /\ JamsUnchanged

NextJams ==
    \/ JamsList
    \/ JamsConvert
    \/ JamsReturn

SpecJams == InitJams /\ [][NextJams]_vars

\* ------------------------------------------------------------------------
\* Fold-wide evaluation (ps_inference.py, compute_all_error_metrics)
\*
\* A piece of the fold is the number of rows of its feature matrix and the
\* notes of its MIDI file.  A metric tuple is kept as the piece it was
\* computed for; a mean as the list it was taken over and its divisor.
\* ------------------------------------------------------------------------
MaxPieces == 2
MaxEvalOnsetPlus == 2

\* the chunk length get_note_activation passes (2000 in the source), scaled,
\* and onset_duration_heuristic
EvalChunk == 4
EvalHeuristic == 10

EvalContexts == {1, 2}
Pieces ==
    {[n_frames |-> 2, notes |-> <<>>],
     [n_frames |-> 2, notes |-> <<[onset |-> 0, pitch |-> 21, duration |-> 2]>>],
     [n_frames |-> 3, notes |-> <<>>],
     [n_frames |-> 2, notes |-> <<[onset |-> 0, pitch |-> 21, duration |-> 6]>>]}

SixResults == {"note_activation", "onset_activation", "gt_frame", "gt_onset",
               "gt_offset", "onset_plus"}

NoActivation ==
    [note_activation |-> <<>>, onset_activation |-> <<>>, n_frames |-> 0,
     onset_plus |-> 0]

\* get_note_activation: the names bound when line 78 is reached, and the
\* value returned or the exception raised
get_note_activation(piece, nop, norm_flag, C, is_hpcp, use_rnn) ==
    LET features == Spectrogram(piece.n_frames)
        gt == midi_to_triple_groundtruth(piece.notes, DtTicks, piece.n_frames, nop)
        spectrogram == IF norm_flag THEN Normalize(features) ELSE features
    IN  IF gt.status # "ok"
        THEN [status |-> gt.status, gt_status |-> gt.status, returned |-> {},
              value |-> NoActivation]
        ELSE IF use_rnn
        THEN LET r == spectrogram_to_non_overlap_note_activation(spectrogram,
                                                                 EvalChunk)
             IN  IF r.status = "ok"
                 THEN [status |-> "ok", gt_status |-> "ok",
                       returned |-> SixResults,
                       value |-> [note_activation |-> r.note_activation,
                                  onset_activation |-> r.onset_activation,
                                  n_frames |-> piece.n_frames,
                                  onset_plus |-> nop]]
                 ELSE [status |-> r.status, gt_status |-> "ok", returned |-> {},
                       value |-> NoActivation]
        ELSE LET r == spectrogram_to_note_activation(spectrogram, C)
             IN  IF r.status = "ok"
                 THEN [status |-> "UnboundLocalError", gt_status |-> "ok",
                       returned |-> {}, value |-> NoActivation]
                 ELSE [status |-> r.status, gt_status |-> "ok", returned |-> {},
                       value |-> NoActivation]

\* util.eval_frame_wise(prediction, ground_truth): an elementwise comparison
\* of two matrices of the same shape
eval_frame_wise(prediction_rows, ground_truth_rows, piece) ==
    IF prediction_rows = ground_truth_rows
    THEN [status |-> "ok", value |-> [piece |-> piece]]
    ELSE [status |-> "ValueError", value |-> [piece |-> piece]]

\* util.mean_eval_frame_wise(list_of_tuples, n): the elementwise mean
mean_eval_frame_wise(list, n) == [of |-> list, n |-> n]
NoMean == [of |-> <<>>, n |-> -1]

\* for index in range(0, n_onset_plus)
OnsetPlusIndicesFromOne(nop) == 1..(nop - 1)
OnsetPlusIndices(nop) == 0..(nop - 1)

\* "mean (onset + " + str(index+1) + " only):   "
OnsetPlusLabelZeroBased(index) == index
OnsetPlusLabel(index) == index + 1

FlatLists == {"frame_wise_metrics",
              "frame_wise_metrics_with_onset_pred",
              "frame_wise_metrics_with_onset_pred_heuristic",
              "frame_wise_onset_metrics",
              "frame_wise_offset_metrics",
              "note_wise_onset_metrics",
              "note_wise_onset_offset_metrics",
              "note_wise_onset_metrics_with_onset_pred",
              "note_wise_onset_offset_metrics_with_onset_pred",
              "note_wise_onset_metrics_with_onset_pred_heuristic",
              "note_wise_onset_offset_metrics_with_onset_pred_heuristic"}

\* the lists appended to by lines 139-145, and those appended to by 178-248
FrameStageLists == {"frame_wise_metrics", "frame_wise_onset_metrics",
                    "frame_wise_offset_metrics"}
NoteStageLists == FlatLists \ FrameStageLists

\* one file.write call
Line(kind, text, k, value) ==
    [kind |-> kind, text |-> text, k |-> k, value |-> value]

InitMetrics ==
    /\ op = "compute_all_error_metrics"
    /\ norm \in BOOLEAN
    /\ context_frames \in EvalContexts
    /\ n_onset_plus \in 0..MaxEvalOnsetPlus
    /\ \E k \in 0..MaxPieces : \E fs \in [1..k -> Pieces] :
       \E use_rnn \in BOOLEAN, is_hpcp \in BOOLEAN :
         em = [pc |-> "build",
               filenames |-> fs,
               is_hpcp |-> is_hpcp,
               hparams |-> [use_rnn |-> use_rnn],
               bound |-> {},
               lists |-> [l \in FlatLists |-> <<>>],
               frame_wise_onset_plus_metrics |-> <<>>,
               num_pieces |-> -1,
               index |-> 0,
               calls |-> <<>>,
               current |-> NoActivation,
               means |-> [l \in FlatLists |-> NoMean],
               mean_frame_wise_onset_plus |-> <<>>,
               write_index |-> 0,
               report |-> <<>>,
               closed |-> FALSE]
    /\ notes = <<>>
    /\ n_frames = 0
    /\ is_chroma = FALSE
    /\ gt_result = NoResult
    /\ wr_result = NoResult
    /\ FoldIdle
    /\ ActIdle
    /\ AuxIdle
    /\ ses = Idle
    /\ sp = Idle
    /\ vis = Idle
    /\ grid = Idle

MetricsUnchanged ==
    UNCHANGED <<op, gtVars, wrVars, foldVars, act, auxVars, ses, sp, vis, grid>>

\* lines 92-127: the configuration, the file list, the predictor and the
\* empty accumulators, one list per onset + k
EmSetup ==
    /\ op = "compute_all_error_metrics"
    /\ em.pc = "build"
    /\ em' = [em EXCEPT
                !.pc = "loop",
                !.bound = {"predictor", "hparams"},
                !.frame_wise_onset_plus_metrics =
                     [k \in 1..n_onset_plus |-> <<>>],
                !.num_pieces = Len(em.filenames)]
    /\ MetricsUnchanged

\* lines 128-135: the next file of the fold is handed to get_note_activation
EmGetActivation ==
    /\ op = "compute_all_error_metrics"
    /\ em.pc = "loop"
    /\ em.index < Len(em.filenames)
    /\ LET r == get_note_activation(em.filenames[em.index + 1], n_onset_plus,
                                    norm, context_frames, em.is_hpcp,
                                    em.hparams.use_rnn)
       IN  em' = [em EXCEPT
                    !.pc = IF r.status = "ok" THEN "frame_metrics" ELSE r.status,
                    !.calls = Append(@, [status |-> r.status,
                                         gt_status |-> r.gt_status,
                                         returned |-> r.returned]),
                    !.current = r.value]
    /\ MetricsUnchanged

\* lines 137-145: the frame-wise, onset, onset + k and offset metrics
EmFrameMetrics ==
    /\ op = "compute_all_error_metrics"
    /\ em.pc = "frame_metrics"
    /\ LET piece == em.index + 1
           m == eval_frame_wise(Len(em.current.note_activation),
                                em.current.n_frames, piece)
       IN  IF m.status # "ok"
           THEN em' = [em EXCEPT !.pc = m.status]
           ELSE em' = [em EXCEPT
                  !.pc = "note_metrics",
                  !.lists = [l \in FlatLists |->
                                IF l \in FrameStageLists
                                THEN Append(em.lists[l], m.value)
                                ELSE em.lists[l]],
                  !.frame_wise_onset_plus_metrics =
                      [k \in DOMAIN @ |->
                          IF k - 1 \in OnsetPlusIndices(n_onset_plus)
                          THEN Append(@[k], m.value) ELSE @[k]]]
    /\ MetricsUnchanged

\* lines 161-248: the onset predictions, the two fused frame-wise metrics and
\* the six note-wise metrics
EmNoteMetrics ==
    /\ op = "compute_all_error_metrics"
    /\ em.pc = "note_metrics"
    /\ LET piece == em.index + 1
           m == eval_frame_wise(Len(em.current.onset_activation),
                                em.current.n_frames, piece)
       IN  IF m.status # "ok"
           THEN em' = [em EXCEPT !.pc = m.status]
           ELSE em' = [em EXCEPT
                  !.pc = "loop",
                  !.index = @ + 1,
                  !.current = NoActivation,
                  !.lists = [l \in FlatLists |->
                                IF l \in NoteStageLists
                                THEN Append(em.lists[l], m.value)
                                ELSE em.lists[l]]]
    /\ MetricsUnchanged

\* lines 253-283: the mean of every list over num_pieces; what the utility
\* does for an empty fold is not fixed by the source
EmMeans ==
    /\ op = "compute_all_error_metrics"
    /\ em.pc = "loop"
    /\ em.index = Len(em.filenames)
    /\ \E outcome \in (IF em.num_pieces = 0
                       THEN {"ok", "ZeroDivisionError"} ELSE {"ok"}) :
         IF outcome # "ok"
         THEN em' = [em EXCEPT !.pc = outcome]
         ELSE em' = [em EXCEPT
                !.pc = "open",
                !.means = [l \in FlatLists |->
                              mean_eval_frame_wise(em.lists[l], em.num_pieces)],
                !.mean_frame_wise_onset_plus =
                    [k \in 1..n_onset_plus |->
                        mean_eval_frame_wise(em.frame_wise_onset_plus_metrics[k],
                                             em.num_pieces)]]
    /\ MetricsUnchanged

\* lines 286-291: the report is opened and the first five lines are written
EmOpenReport ==
    /\ op = "compute_all_error_metrics"
    /\ em.pc = "open"
    /\ em' = [em EXCEPT
         !.pc = "onset_plus",
         !.report =
            <<Line("header", "frame-wise metrics (precision/recall/f1-score)",
                   0, NoMean),
              Line("mean", "mean:", 0, em.means["frame_wise_metrics"]),
              Line("mean", "mean (onset prediction):", 0,
                   em.means["frame_wise_metrics_with_onset_pred"]),
              Line("mean", "mean (onset heuristic):", 0,
                   em.means["frame_wise_metrics_with_onset_pred_heuristic"]),
              Line("mean", "mean (onset only):", 0,
                   em.means["frame_wise_onset_metrics"])>>]
    /\ MetricsUnchanged

\* lines 292-293: one line per index of range(0, n_onset_plus)
EmWriteOnsetPlus ==
    /\ op = "compute_all_error_metrics"
    /\ em.pc = "onset_plus"
    /\ em.write_index \in OnsetPlusIndices(n_onset_plus)
    /\ em' = [em EXCEPT
         !.write_index = @ + 1,
         !.report = Append(@, Line("mean", "mean (onset + k only):",
                                   OnsetPlusLabel(em.write_index),
                                   em.mean_frame_wise_onset_plus[em.write_index + 1]))]
    /\ MetricsUnchanged

NoteSection(header, wo_offset, w_offset) ==
    <<Line("blank", "", 0, NoMean),
      Line("separator", "-----------------------------------------------------------------",
           0, NoMean),
      Line("blank", "", 0, NoMean),
      Line("header", header, 0, NoMean),
      Line("mean", "mean (w/o offset):", 0, wo_offset),
      Line("mean", "mean (w/ offset):", 0, w_offset)>>

\* lines 295-319: the offset line and the three note-metric sections
EmWriteRest ==
    /\ op = "compute_all_error_metrics"
    /\ em.pc = "onset_plus"
    /\ em.write_index \notin OnsetPlusIndices(n_onset_plus)
    /\ em' = [em EXCEPT
         !.pc = "close",
         !.report =
            @ \o <<Line("mean", "mean (offset only):", 0,
                        em.means["frame_wise_offset_metrics"])>>
              \o NoteSection(
                   "note metrics w/o onset predictions (precision/recall/f1-score)",
                   em.means["note_wise_onset_metrics"],
                   em.means["note_wise_onset_offset_metrics"])
              \o NoteSection(
                   "note metrics w/ onset predictions (precision/recall/f1-score)",
                   em.means["note_wise_onset_metrics_with_onset_pred"],
                   em.means["note_wise_onset_offset_metrics_with_onset_pred"])
              \o NoteSection(
                   "note metrics w/ onset predictions and heuristic (10 frames) (precision/recall/f1-score)",
                   em.means["note_wise_onset_metrics_with_onset_pred_heuristic"],
                   em.means["note_wise_onset_offset_metrics_with_onset_pred_heuristic"])]
    /\ MetricsUnchanged

\* line 321: file.close()
EmClose ==
    /\ op = "compute_all_error_metrics"
    /\ em.pc = "close"
    /\ em' = [em EXCEPT !.pc = "done", !.closed = TRUE]
    /\ MetricsUnchanged

NextMetrics ==
    \/ EmSetup
    \/ EmGetActivation
    \/ EmFrameMetrics
    \/ EmNoteMetrics
    \/ EmMeans
    \/ EmOpenReport
    \/ EmWriteOnsetPlus
    \/ EmWriteRest
    \/ EmClose

SpecMetrics == InitMetrics /\ [][NextMetrics]_vars

\* ------------------------------------------------------------------------
\* Predictor sessions of the inference drivers (ps_inference.py)
\*
\* A driver builds its predictor, then runs a number of files, each of which
\* makes a number of get_activation calls (one per window or chunk).
\* ------------------------------------------------------------------------
MaxSesFiles == 2
MaxSesCalls == 2

SesDrivers == {"convert_fold_to_note_activation", "compute_all_error_metrics_session",
               "transcribe_piano_piece_session"}

\* build_predictor returns (estimator_predictor, hparams); every call builds
\* a new estimator
build_predictor(n) ==
    [kind |-> "pair",
     first |-> [kind |-> "predictor", id |-> n],
     second |-> [kind |-> "hparams", id |-> n]]

NoValue == [kind |-> "unbound", id |-> 0]

\* predictor = build_predictor(..) binds the pair itself;
\* predictor, hparams = build_predictor(..) binds its two elements
BindsPair(driver) == driver = "convert_fold_to_note_activation"

\* the drivers whose activation function is the windowed one whatever use_rnn
Windowed(driver, use_rnn) ==
    driver = "convert_fold_to_note_activation" \/ ~use_rnn

InitSession ==
    /\ op \in SesDrivers
    /\ \E k \in 0..MaxSesFiles, c \in 0..MaxSesCalls, use_rnn \in BOOLEAN :
         ses = [pc |-> "build",
                files |-> IF op = "transcribe_piano_piece_session" THEN 1 ELSE k,
                calls_per_file |-> c,
                use_rnn |-> use_rnn,
                built |-> <<>>,
                predictor |-> NoValue,
                hparams |-> NoValue,
                file |-> 0,
                call |-> 0,
                passed |-> <<>>]
    /\ GtIdle
    /\ WrIdle
    /\ FoldIdle
    /\ ActIdle
    /\ AuxIdle
    /\ em = Idle
    /\ sp = Idle
    /\ vis = Idle
    /\ grid = Idle

SessionUnchanged ==
    UNCHANGED <<op, gtVars, wrVars, foldVars, act, auxVars, em, sp, vis, grid>>

\* line 33, line 100, line 330: the call of build_predictor and its binding
SesBuild ==
    /\ op \in SesDrivers
    /\ ses.pc = "build"
    /\ LET r == build_predictor(Len(ses.built) + 1)
       IN  ses' = [ses EXCEPT
                     !.pc = "loop",
                     !.built = Append(@, r),
                     !.predictor = IF BindsPair(op) THEN r ELSE r.first,
                     !.hparams = IF BindsPair(op) THEN NoValue ELSE r.second]
    /\ SessionUnchanged

\* the next file of the fold (the one piece of transcribe_piano_piece)
SesFile ==
    /\ op \in SesDrivers
    /\ ses.pc = "loop"
    /\ ses.file < ses.files
    /\ ses' = [ses EXCEPT !.pc = "file", !.file = @ + 1, !.call = 0]
    /\ SessionUnchanged

\* get_activation(features, estimator_predictor): p = estimator_predictor(..)
\* calls its argument; a tuple is not callable.  In the windowed function the
\* pair get_activation returns is then assigned to a row of the activation
SesGetActivation ==
    /\ op \in SesDrivers
    /\ ses.pc = "file"
    /\ ses.call < ses.calls_per_file
    /\ ses' = [ses EXCEPT
                 !.passed = Append(@, ses.predictor),
                 !.call = @ + 1,
                 !.pc = IF ses.predictor.kind # "predictor" THEN "TypeError"
                        ELSE IF Windowed(op, ses.use_rnn) THEN "ValueError"
                        ELSE "file"]
    /\ SessionUnchanged

\* the rest of the file's processing; for the metrics driver and the
\* transcription with use_rnn false, onset_activation is unbound
SesFileEnd ==
    /\ op \in SesDrivers
    /\ ses.pc = "file"
    /\ ses.call = ses.calls_per_file
    /\ ses' = [ses EXCEPT
                 !.pc = IF op # "convert_fold_to_note_activation" /\ ~ses.use_rnn
                        THEN "UnboundLocalError" ELSE "loop"]
    /\ SessionUnchanged

SesReturn ==
    /\ op \in SesDrivers
    /\ ses.pc = "loop"
    /\ ses.file = ses.files
    /\ ses' = [ses EXCEPT !.pc = "done"]
    /\ SessionUnchanged

NextSession ==
    \/ SesBuild
    \/ SesFile
    \/ SesGetActivation
    \/ SesFileEnd
    \/ SesReturn

SpecSession == InitSession /\ [][NextSession]_vars

\* ------------------------------------------------------------------------
\* Record inspection loops of the visualization tool (ps_data_test.py)
\*
\* The records of a dataset are numbered 1..n.  An array under accumulation
\* is the sequence of its columns: 0 for a column of zeros, r for the slice
\* taken from record r.
\* ------------------------------------------------------------------------
VisRoutines == {"import_tfrecord", "import_single_example", "show_record"}

\* the numbers of records of the inspected datasets
DatasetLengths == {0, 1, 3, 4, 8, 9, 12, 100, 101, 2180, 2181, 5000, 5001}

\* for index in range(0, 2180) / range(0, 100) / range(0, 5000)
LoopBound(routine) ==
    IF routine = "import_tfrecord" THEN 2180
    ELSE IF routine = "import_single_example" THEN 100 ELSE 5000

\* the batch size handed to the dataset constructor (show_record reads the
\* record file itself, record by record)
BatchSize(routine) == IF routine = "import_single_example" THEN 8 ELSE 1

\* the example of a batch the slice is taken from: spec_tensor[3, :, :, :]
SliceIndex(routine) == IF routine = "import_single_example" THEN 3 ELSE 0

\* np.zeros((.., 2)), np.zeros((.., 1)), np.zeros((231, 2, 3))
InitialColumns(routine) == IF routine = "import_single_example" THEN 1 ELSE 2

\* label columns appended per pass: the label, and in import_single_example
\* the label between two np_label_fix blocks of two columns each
LabelColumns(routine) == IF routine = "import_single_example" THEN 5 ELSE 1

\* the first column shown: np_spec[:, :], np_spec[:, 1:], np_spec[:, 150:, k]
RenderFrom(routine) ==
    IF routine = "import_tfrecord" THEN 0
    ELSE IF routine = "import_single_example" THEN 1 ELSE 150

\* the k-th element (k >= 0) of a dataset of n records batched by b: the
\* records of the batch, <<>> when the dataset is exhausted
Element(n, b, k, drop_remainder) ==
    LET first == k * b + 1
        last == Min((k + 1) * b, n)
    IN  IF first > n \/ (drop_remainder /\ last - first + 1 < b) THEN <<>>
        ELSE [i \in 1..(last - first + 1) |-> first + i - 1]

InitVis ==
    /\ op \in VisRoutines
    /\ \E n \in DatasetLengths, drop_remainder \in BOOLEAN :
         vis = [pc |-> "open",
                n |-> n,
                drop_remainder |-> drop_remainder /\ op = "import_single_example",
                index |-> 0,
                consumed |-> 0,
                np_spec |-> <<>>,
                label_columns |-> 0,
                diagnostics |-> <<>>,
                rendered |-> <<>>]
    /\ GtIdle
    /\ WrIdle
    /\ FoldIdle
    /\ ActIdle
    /\ AuxIdle
    /\ em = Idle
    /\ ses = Idle
    /\ sp = Idle
    /\ grid = Idle

VisUnchanged ==
    UNCHANGED <<op, gtVars, wrVars, foldVars, act, auxVars, em, ses, sp, grid>>

\* the dataset, its one-shot iterator, the figure and the arrays of zeros
VisOpen ==
    /\ op \in VisRoutines
    /\ vis.pc = "open"
    /\ vis' = [vis EXCEPT !.pc = "loop",
                          !.np_spec = [i \in 1..InitialColumns(op) |-> 0],
                          !.label_columns = InitialColumns(op)]
    /\ VisUnchanged

\* one pass of the loop: sess.run, the slice, the two np.append calls;
\* tf.errors.OutOfRangeError ends the loop, any other exception the routine
VisRead ==
    /\ op \in VisRoutines
    /\ vis.pc = "loop"
    /\ vis.index < LoopBound(op)
    /\ LET batch == Element(vis.n, BatchSize(op), vis.index, vis.drop_remainder)
       IN  IF batch = <<>>
           THEN vis' = [vis EXCEPT !.pc = "diagnostics"]
           ELSE IF SliceIndex(op) >= Len(batch)
           THEN vis' = [vis EXCEPT !.pc = "IndexError",
                                   !.consumed = @ + Len(batch)]
           ELSE vis' = [vis EXCEPT
                          !.index = @ + 1,
                          !.consumed = @ + Len(batch),
                          !.np_spec = Append(@, batch[SliceIndex(op) + 1]),
                          !.label_columns = @ + LabelColumns(op)]
    /\ VisUnchanged

\* the loop has run its full range
VisLoopEnd ==
    /\ op \in VisRoutines
    /\ vis.pc = "loop"
    /\ vis.index >= LoopBound(op)
    /\ vis' = [vis EXCEPT !.pc = "diagnostics"]
    /\ VisUnchanged

\* print(np.max(np_spec)); print(np.min(np_spec)); the pcolormesh panels
VisRender ==
    /\ op \in VisRoutines
    /\ vis.pc = "diagnostics"
    /\ vis' = [vis EXCEPT !.pc = "shown",
                          !.diagnostics = vis.np_spec,
                          !.rendered = Slice(vis.np_spec, RenderFrom(op),
                                             Len(vis.np_spec))]
    /\ VisUnchanged

NextVis ==
    \/ VisOpen
    \/ VisRead
    \/ VisLoopEnd
    \/ VisRender

SpecVis == InitVis /\ [][NextVis]_vars

\* ------------------------------------------------------------------------
\* Spectrogram processor selection (ps_preprocessing.py, get_spec_processor)
\*
\* A dict is a function from its keys to their values; the heap holds the
\* caller's dict under "caller" and the one dict() creates under "copy".
\* ------------------------------------------------------------------------
SpectrogramTypes == {"LogarithmicFilteredSpectrogram", "FilteredSpectrogram",
                     "NoSuchSpectrogram"}
Filterbanks == {"LogarithmicFilterbank", "MelFilterbank", "NoSuchFilterbank"}
OtherOptions == {"fps", "num_bands"}

\* the attributes of the toolkit module madmom_spec
MadmomAttributes == {"LogarithmicFilteredSpectrogram", "FilteredSpectrogram",
                     "LogarithmicFilterbank", "MelFilterbank"}

\* getattr(madmom_spec, name)
Getattr(name) ==
    IF name \in MadmomAttributes
    THEN [status |-> "ok", value |-> [attribute |-> name]]
    ELSE [status |-> "AttributeError", value |-> [attribute |-> "none"]]

\* the caller's maps: each key present or absent
OptionMaps ==
    {[k \in ks |-> IF k = "spectrogram_type" THEN t
                   ELSE IF k = "filterbank" THEN b ELSE k] :
        ks \in SUBSET ({"spectrogram_type", "filterbank"} \cup OtherOptions),
        t \in SpectrogramTypes, b \in Filterbanks}

\* audio_options = dict(_audio_options): the object the local name refers to
DictAlias(source) == source
Dict(source) == "copy"

\* del d[key]
DelKey(d, key) == [k \in (DOMAIN d) \ {key} |-> d[k]]
\* d[key] = value
SetKey(d, key, value) ==
    [k \in (DOMAIN d) \cup {key} |-> IF k = key THEN value ELSE d[k]]

InitProcessor ==
    /\ op = "get_spec_processor"
    /\ \E m \in OptionMaps :
         sp = [pc |-> "copy",
               given |-> m,
               heap |-> [caller |-> m, copy |-> << >>],
               audio_options |-> "unbound",
               spectype |-> [attribute |-> "none"],
               result |-> << >>]
    /\ GtIdle
    /\ WrIdle
    /\ FoldIdle
    /\ ActIdle
    /\ AuxIdle
    /\ em = Idle
    /\ ses = Idle
    /\ vis = Idle
    /\ grid = Idle

ProcessorUnchanged ==
    UNCHANGED <<op, gtVars, wrVars, foldVars, act, auxVars, em, ses, vis, grid>>

\* audio_options = dict(_audio_options)
SpCopy ==
    /\ op = "get_spec_processor"
    /\ sp.pc = "copy"
    /\ LET target == Dict("caller")
       IN  sp' = [sp EXCEPT !.pc = "type",
                            !.audio_options = target,
                            !.heap = [@ EXCEPT ![target] = sp.heap.caller]]
    /\ ProcessorUnchanged

\* if 'spectrogram_type' in audio_options: spectype = getattr(..); del ..
\* else: spectype = getattr(madmom_spec, 'LogarithmicFilteredSpectrogram')
SpType ==
    /\ op = "get_spec_processor"
    /\ sp.pc = "type"
    /\ LET d == sp.heap[sp.audio_options]
           r == IF "spectrogram_type" \in DOMAIN d
                THEN Getattr(d["spectrogram_type"])
                ELSE Getattr("LogarithmicFilteredSpectrogram")
       IN  IF r.status # "ok"
           THEN sp' = [sp EXCEPT !.pc = r.status]
           ELSE sp' = [sp EXCEPT
                         !.pc = "filterbank",
                         !.spectype = r.value,
                         !.heap = [@ EXCEPT ![sp.audio_options] =
                                       DelKey(d, "spectrogram_type")]]
    /\ ProcessorUnchanged

\* if 'filterbank' in audio_options: audio_options['filterbank'] = getattr(..)
\* else: audio_options['filterbank'] = getattr(madmom_spec, 'LogarithmicFilterbank')
SpFilterbank ==
    /\ op = "get_spec_processor"
    /\ sp.pc = "filterbank"
    /\ LET d == sp.heap[sp.audio_options]
           r == IF "filterbank" \in DOMAIN d
                THEN Getattr(d["filterbank"])
                ELSE Getattr("LogarithmicFilterbank")
       IN  IF r.status # "ok"
           THEN sp' = [sp EXCEPT !.pc = r.status]
           ELSE sp' = [sp EXCEPT
                         !.pc = "return",
                         !.heap = [@ EXCEPT ![sp.audio_options] =
                                       SetKey(d, "filterbank", r.value)]]
    /\ ProcessorUnchanged

\* return spectype, audio_options
SpReturn ==
    /\ op = "get_spec_processor"
    /\ sp.pc = "return"
    /\ sp' = [sp EXCEPT !.pc = "done",
                        !.result = <<sp.spectype, sp.heap[sp.audio_options]>>]
    /\ ProcessorUnchanged

NextProcessor ==
    \/ SpCopy
    \/ SpType
    \/ SpFilterbank
    \/ SpReturn

SpecProcessor == InitProcessor /\ [][NextProcessor]_vars

\* ------------------------------------------------------------------------
\* Kernel grid shape (ps_model.py, put_kernels_on_grid, factorization)
\* ------------------------------------------------------------------------
MaxKernels == 64

\* the kernel counts: kernel.get_shape()[3].value of a convolution kernel
KernelCounts == 1..MaxKernels

\* int(sqrt(float(n)))
IntSqrtRoundUp(n) == CHOOSE r \in 0..n : r * r >= n /\ (r = 0 \/ (r - 1) * (r - 1) < n)
IntSqrt(n) == CHOOSE r \in 0..n : r * r <= n /\ (r + 1) * (r + 1) > n

\* int(n / i)
IntQuotient(n, i) == n \div i

PrimeDiagnostic == "Who would enter a prime number of filters"

InitGrid ==
    /\ op = "put_kernels_on_grid"
    /\ \E n \in KernelCounts :
         grid = [pc |-> "call", n |-> n, i |-> 0, printed |-> << >>,
                 returned |-> << >>, grid_Y |-> 0, grid_X |-> 0]
    /\ GtIdle
    /\ WrIdle
    /\ FoldIdle
    /\ ActIdle
    /\ AuxIdle
    /\ em = Idle
    /\ ses = Idle
    /\ sp = Idle
    /\ vis = Idle

GridUnchanged ==
    UNCHANGED <<op, gtVars, wrVars, foldVars, act, auxVars, em, ses, sp, vis>>

\* for i in range(int(sqrt(float(n))), 0, -1): the first value of i; an
\* empty range falls out of the function, which then returns None
GridEnter ==
    /\ op = "put_kernels_on_grid"
    /\ grid.pc = "call"
    /\ LET first == IntSqrt(grid.n)
       IN  IF first > 0
           THEN grid' = [grid EXCEPT !.pc = "loop", !.i = first]
           ELSE grid' = [grid EXCEPT !.pc = "returned", !.returned = <<"None">>]
    /\ GridUnchanged

\* if n % i == 0 is false: the next value of i; the range ends before 0
GridSkip ==
    /\ op = "put_kernels_on_grid"
    /\ grid.pc = "loop"
    /\ grid.n % grid.i # 0
    /\ IF grid.i - 1 > 0
       THEN grid' = [grid EXCEPT !.i = grid.i - 1]
       ELSE grid' = [grid EXCEPT !.pc = "returned", !.returned = <<"None">>]
    /\ GridUnchanged

\* if n % i == 0: if i == 1: print(..); return i, int(n / i)
GridReturn ==
    /\ op = "put_kernels_on_grid"
    /\ grid.pc = "loop"
    /\ grid.n % grid.i = 0
    /\ grid' = [grid EXCEPT
                  !.pc = "returned",
                  !.printed = IF grid.i = 1 THEN Append(@, PrimeDiagnostic) ELSE @,
                  !.returned = <<grid.i, IntQuotient(grid.n, grid.i)>>]
    /\ GridUnchanged

\* (grid_Y, grid_X) = factorization(kernel.get_shape()[3].value)
GridUnpack ==
    /\ op = "put_kernels_on_grid"
    /\ grid.pc = "returned"
    /\ IF Len(grid.returned) = 2
       THEN grid' = [grid EXCEPT !.pc = "done",
                                 !.grid_Y = grid.returned[1],
                                 !.grid_X = grid.returned[2]]
       ELSE grid' = [grid EXCEPT !.pc = "TypeError"]
    /\ GridUnchanged

NextGrid ==
    \/ GridEnter
    \/ GridSkip
    \/ GridReturn
    \/ GridUnpack

SpecGrid == InitGrid /\ [][NextGrid]_vars

\* ========================================================================
\* Properties
\* ========================================================================
Rows == 0..(n_frames - 1)
Labels == 0..(NumKeys - 1)
NoteIdx == 1..Len(notes)
FS(i) == frame_start(notes[i], DtTicks)
FE(i) == frame_end(notes[i], DtTicks)
LB(i) == notes[i].pitch - MinPitch

GtReturned == op = "midi_to_groundtruth" /\ gt_result.status = "ok"
TripleCalled == op = "midi_to_triple_groundtruth" /\ gt_result.status # "none"
TripleReturned == op = "midi_to_triple_groundtruth" /\ gt_result.status = "ok"

\* C3: midi_to_groundtruth (non-chroma) returns n_frames x 88 binary matrices
\* with frame_gt[f, l] = 1 iff some note of pitch l + 21 has
\* frame_start <= f < frame_end, and onset_gt[f, l] = 1 iff some note of pitch
\* l + 21 has frame_start + 2 <= frame_end and f is frame_start or
\* frame_start + 1.
C3_GroundtruthCells ==
    (GtReturned /\ ~is_chroma) =>
        /\ gt_result.frame_gt \subseteq Rows \X Labels
        /\ gt_result.onset_gt \subseteq Rows \X Labels
        /\ \A f \in Rows, l \in Labels :
             /\ <<f, l>> \in gt_result.frame_gt <=>
                    \E i \in NoteIdx : LB(i) = l /\ FS(i) <= f /\ f < FE(i)
             /\ <<f, l>> \in gt_result.onset_gt <=>
                    \E i \in NoteIdx : /\ LB(i) = l
                                       /\ FS(i) + 2 <= FE(i)
                                       /\ f \in {FS(i), FS(i) + 1}

\* a returned non-chroma result with one note long enough to get its onset
\* frames and one note too short to get any
C3_Witness ==
    /\ GtReturned /\ ~is_chroma
    /\ \E i \in NoteIdx : FS(i) + 2 <= FE(i) /\ <<FS(i), LB(i)>> \in gt_result.onset_gt
    /\ \E i \in NoteIdx : /\ FS(i) + 1 = FE(i)
                          /\ <<FS(i), LB(i)>> \in gt_result.frame_gt
                          /\ <<FS(i), LB(i)>> \notin gt_result.onset_gt

\* C4: for notes whose frame_start lies in [0, n_frames),
\* midi_to_triple_groundtruth returns offset_gt with a 1 at (frame_end, label)
\* of each note and onset_plus[k] with a 1 at (frame_start + k + 1, label)
\* exactly when frame_start + k + 1 < frame_end, all other entries 0.
C4_TripleOffsetsOnsetPlus ==
    (TripleCalled /\ \A i \in NoteIdx : FS(i) \in Rows) =>
        /\ gt_result.status = "ok"
        /\ gt_result.offset_gt = {<<FE(i), LB(i)>> : i \in NoteIdx}
        /\ \A k \in 0..(n_onset_plus - 1) :
             gt_result.onset_plus[k + 1] =
                {<<FS(i) + k + 1, LB(i)>> :
                    i \in {j \in NoteIdx : FS(j) + k + 1 < FE(j)}}

\* C5: the frame_gt and onset_gt returned by midi_to_triple_groundtruth equal
\* those returned by midi_to_groundtruth(is_chroma = False) on the same input.
C5_TripleEqualsGroundtruth ==
    TripleReturned =>
        /\ gt_result.frame_gt =
             midi_to_groundtruth(notes, DtTicks, n_frames, FALSE).frame_gt
        /\ gt_result.onset_gt =
             midi_to_groundtruth(notes, DtTicks, n_frames, FALSE).onset_gt

\* C5 as amended: a call of midi_to_triple_groundtruth either raises IndexError
\* (some note has frame_start or frame_end >= n_frames) or returns the same
\* frame_gt as midi_to_groundtruth and an onset_gt holding a 1 exactly at
\* (frame_start, label) of every note.
C5_TripleFrameEqualOnsetSingle ==
    TripleCalled =>
        \/ /\ gt_result.status = "IndexError"
           /\ \E i \in NoteIdx : FS(i) >= n_frames \/ FE(i) >= n_frames
        \/ /\ gt_result.status = "ok"
           /\ gt_result.frame_gt =
                midi_to_groundtruth(notes, DtTicks, n_frames, FALSE).frame_gt
           /\ gt_result.onset_gt = {<<FS(i), LB(i)>> : i \in NoteIdx}

\* a returned triple result whose onset_gt differs from midi_to_groundtruth's
C5_Witness ==
    /\ TripleReturned
    /\ Len(notes) > 0
    /\ gt_result.frame_gt # {}
    /\ gt_result.onset_gt #
         midi_to_groundtruth(notes, DtTicks, n_frames, FALSE).onset_gt

Max(a, b) == IF a > b THEN a ELSE b

\* the feature matrix and label rows a writer works on
Features == IF norm THEN Normalize(Spectrogram(n_frames)) ELSE Spectrogram(n_frames)
FrameLabels ==
    MatrixRows(midi_to_groundtruth(notes, DtTicks, n_frames, FALSE).frame_gt, n_frames)
OnsetLabels ==
    MatrixRows(midi_to_groundtruth(notes, DtTicks, n_frames, FALSE).onset_gt, n_frames)

WindowedCalled == op = "write_file_to_tfrecords" /\ wr_result.status # "none"
NonOverlapCalled ==
    op = "write_file_to_non_overlap_tfrecords" /\ wr_result.status # "none"

\* C1: for F frames and context_frames = C, write_file_to_tfrecords writes
\* exactly max(0, F - 2C) records, one per center frame f in [C, F - C) in
\* increasing order, each pairing the window f-C..f+C with the label row of
\* frame f, and returns that count.
C1_WindowedRecords ==
    WindowedCalled =>
        /\ wr_result.status = "ok"
        /\ wr_result.total = Max(0, n_frames - 2 * context_frames)
        /\ Len(wr_result.records) = wr_result.total
        /\ \A j \in 1..Len(wr_result.records) :
             LET f == context_frames + j - 1
             IN  /\ wr_result.records[j].spec =
                        [r \in 1..(2 * context_frames + 1) |->
                            Features[f - context_frames + r]]
                 /\ wr_result.records[j].label = <<FrameLabels[f + 1]>>

\* C2: for F >= 1 frames and chunk length C >= 1,
\* write_file_to_non_overlap_tfrecords writes exactly ceil(F / C) records and
\* returns that count; every record has C rows of spec, label and onset, and
\* record i holds the input rows [i*C, min((i+1)*C, F)) followed by zero rows.
C2_NonOverlapRecords ==
    NonOverlapCalled =>
        LET C == context_frames
            F == n_frames
            n == (F + C - 1) \div C
        IN  /\ wr_result.status = "ok"
            /\ wr_result.total = n
            /\ Len(wr_result.records) = n
            /\ \A i \in 0..(n - 1) :
                 LET rec == wr_result.records[i + 1]
                 IN  /\ Len(rec.spec) = C
                     /\ Len(rec.label) = C
                     /\ Len(rec.onset) = C
                     /\ \A r \in 0..(C - 1) :
                          IF i * C + r < F
                          THEN /\ rec.spec[r + 1] = Features[i * C + r + 1]
                               /\ rec.label[r + 1] = FrameLabels[i * C + r + 1]
                               /\ rec.onset[r + 1] = OnsetLabels[i * C + r + 1]
                          ELSE /\ i = n - 1
                               /\ rec.spec[r + 1] = ZeroSpecRow
                               /\ rec.label[r + 1] = ZeroLabelRow
                               /\ rec.onset[r + 1] = ZeroLabelRow

\* several chunks were written, the last one padded, with an active note and
\* its onset among the label rows
C2_Witness ==
    /\ NonOverlapCalled
    /\ wr_result.total >= 2
    /\ n_frames % context_frames # 0
    /\ wr_result.records[wr_result.total].spec[context_frames] = ZeroSpecRow
    /\ \E i \in 1..wr_result.total, r \in 1..context_frames :
         /\ wr_result.records[i].label[r] # ZeroLabelRow
         /\ wr_result.records[i].onset[r] # ZeroLabelRow

FileIdx == 1..Len(filenames)
AllReadable == \A i \in FileIdx : Readable(filenames[i])
SomeFailed == \E i \in FileIdx : tasks[i] = "failed"

\* C6: preprocess_fold and preprocess_non_overlap_fold invoke the per-file
\* writer exactly once per entry of the fold file list, in list order; after
\* the i-th file the running total is the sum of the counts returned for the
\* first i files; the metadata is saved once, after the last file, with the
\* sum over all files.
C6_SequentialFold ==
    (op \in SeqDrivers /\ AllReadable) =>
        /\ invoked = [i \in 1..Len(invoked) |-> i]
        /\ \A i \in 1..Len(invoked) : returned[i] >= 0
        /\ total_examples_processed = SumSeq(SubSeq(returned, 1, Len(invoked)))
        /\ pc # "raised"
        /\ IF pc = "done"
           THEN /\ Len(invoked) = Len(filenames)
                /\ metadata = <<SumSeq(returned)>>
           ELSE metadata = <<>>

\* C7: for the same fold file list, under every scheduling and completion
\* order, a parallel driver saves the same total_examples_processed and leaves
\* the same per-file record outputs as its sequential driver, and the total is
\* computed only after every task has completed.
C7_ParallelEqualsSequential ==
    (op \in ParDrivers /\ AllReadable) =>
        /\ metadata # <<>> => JoinReady(tasks)
        /\ pc \in {"done", "raised"} =>
             LET seq == preprocess_fold(SeqOf(op), filenames, norm, context_frames)
             IN  /\ metadata = seq.metadata
                 /\ disk = seq.disk

\* C8: if a task of a parallel batch fails, the batch aborts with no partial
\* persistence: the metadata is not written, no (completed) record output of
\* the batch remains on disk, and no task is retried.
C8_NoPartialPersistence ==
    (op \in ParDrivers /\ SomeFailed /\ pc = "raised") =>
        /\ metadata = <<>>
        /\ \A f \in disk : ~f.closed
        /\ \A i, j \in 1..Len(invoked) : invoked[i] = invoked[j] => i = j

\* C8 as amended: if a task of a parallel batch fails, the metadata is not
\* written and no task is retried; the record files that the completed tasks
\* of the batch wrote stay on disk.
C8_FailFastKeepsOutputs ==
    op \in ParDrivers =>
        /\ SomeFailed => (metadata = <<>> /\ pc # "done")
        /\ \A i, j \in 1..Len(invoked) : invoked[i] = invoked[j] => i = j
        /\ \A i \in FileIdx :
             tasks[i] = "done" => \E f \in disk : f.path = OutPath(filenames[i])

\* a batch that raised after one task failed and another completed, whose
\* complete record file is still on disk
C8_Witness ==
    /\ op \in ParDrivers
    /\ pc = "raised"
    /\ \E i, j \in FileIdx :
         /\ tasks[i] = "failed"
         /\ tasks[j] = "done"
         /\ \E f \in disk : f.src = filenames[j] /\ f.closed /\ f.total > 0

\* C9: during parallel preprocessing every output path has one writer: the
\* tasks of two distinct entries of the fold file list write to different
\* record file paths, so no two running tasks write the same file.
C9_ExclusiveWriters ==
    op \in ParDrivers =>
        \A i, j \in Running :
            filenames[i] # filenames[j] =>
                OutPath(filenames[i]) # OutPath(filenames[j])

\* the accumulation buffer: one leading zero row, then the predictor outputs
\* of the chunks in order
RECURSIVE ConcatOutputs(_, _)
ConcatOutputs(split, field) ==
    IF split = <<>> THEN <<>>
    ELSE get_activation(Head(split))[field] \o ConcatOutputs(Tail(split), field)
Buffer(field) ==
    <<ZeroActRow>> \o ConcatOutputs(SplitSpec(n_frames, context_frames), field)

\* C10: for F >= 1 rows and chunk length C >= 1,
\* spectrogram_to_non_overlap_note_activation returns a frame and an onset
\* array of exactly F rows each, the frame array being rows [3, F + 3) and the
\* onset array rows [1, F + 1) of the accumulation buffer.
C10_ActivationShapes ==
    (op = "spectrogram_to_non_overlap_note_activation" /\ act.pc = "done") =>
        /\ Len(act.frame_out) = n_frames
        /\ Len(act.onset_out) = n_frames
        /\ \A r \in 1..n_frames :
             /\ act.frame_out[r] = Buffer("probabilities")[FrameOffset + r]
             /\ act.onset_out[r] = Buffer("onset_probabilities")[OnsetOffset + r]

\* C11: for a spectrogram of F rows and half-window C,
\* spectrogram_to_note_activation invokes the predictor once per center frame
\* in [C, F - C) on the symmetric window and returns exactly F rows, row r
\* holding the predictor's frame probabilities of center frame r + 8 when
\* C <= r + 8 < F - C and zeros otherwise.
C11_WindowedActivation ==
    (op = "spectrogram_to_note_activation" /\ act.pc # "loop") =>
        /\ act.pc = "done"
        /\ act.done = Max(0, n_frames - 2 * context_frames)
        /\ Len(act.frame_out) = n_frames
        /\ \A r \in 0..(n_frames - 1) :
             act.frame_out[r + 1] =
                IF /\ context_frames <= r + ShiftRows
                   /\ r + ShiftRows < n_frames - context_frames
                THEN get_activation(Window(Spectrogram(n_frames), context_frames,
                                           r + ShiftRows)).probabilities
                ELSE ZeroActRow

TrRunning == {"features", "inference", "binarize", "onsets", "intervals",
              "midi", "archive"}
TrEnded == op = "transcribe_piano_piece" /\ tr.pc \notin TrRunning
TrDerived == op = "transcribe_piano_piece"
                 /\ tr.pc \in {"intervals", "midi", "archive", "done"}
MidiFiles == {k \in 1..Len(tr.files) : tr.files[k].kind = "midi"}

\* C12: transcribe_piano_piece, with use_rnn = False as well as with
\* use_rnn = True, runs through to the end and writes exactly three MIDI files
\* named ..._noOnset.mid, ..._onsetPrediction.mid and ..._onsetHeuristic.mid,
\* followed by one archive with the fields note_activation, spec, onset_act_fn.
C12_TranscribeWritesFiles ==
    TrEnded =>
        /\ tr.pc = "done"
        /\ Len(tr.files) = 4
        /\ MidiFiles = {1, 2, 3}
        /\ tr.files[1].name[3] = "_noOnset.mid"
        /\ tr.files[2].name[3] = "_onsetPrediction.mid"
        /\ tr.files[3].name[3] = "_onsetHeuristic.mid"
        /\ tr.files[4].kind = "archive"
        /\ tr.files[4].fields = {"note_activation", "spec", "onset_act_fn"}

\* a detected onset held for onset_duration frames (at least the onset frame)
Extended(roll, onset_duration) ==
    roll.cells \cup
        {c \in (0..(roll.rows - 1)) \X TrLabels :
            \E i \in 0..(onset_duration - 1) : <<c[1] - i, c[2]>> \in roll.cells}

\* C13: the "_onsetPrediction" transcription uses the thresholded onset
\* activation, and the "_onsetHeuristic" transcription is derived from the
\* frames or-ed with the thresholded onset activation extended by
\* onset_duration_heuristic frames per detected onset.
C13_HeuristicExtension ==
    TrDerived =>
        /\ tr.onset_predictions =
               GreaterEqualHalf(tr.onset_activation, tr.predictor)
        /\ tr.onset_predictions_with_heuristic.cells =
               Extended(tr.onset_predictions, tr.onset_duration_heuristic)
        /\ tr.frames_with_onset_heuristic.cells =
               LogicalOr(tr.frames,
                         [rows |-> tr.onset_predictions.rows,
                          cells |-> Extended(tr.onset_predictions,
                                             tr.onset_duration_heuristic)]).cells

NoteRows(k) ==
    IF k = 1 THEN tr.notes
    ELSE IF k = 2 THEN tr.notes_onset_pred
    ELSE tr.notes_onset_pred_heuristic

C15_PredictMode ==
    (op = "conv_net_init" /\ net.mode = "PREDICT" /\ net.use_rnn) =>
        /\ ~net.labels_read
        /\ net.losses = <<>>
        /\ net.train_op = "none"
        /\ net.pc \notin {"ValueError", "NameError", "loss", "train", "metrics"}
        /\ net.returned =>
             /\ DOMAIN net.predictions =
                    {"classes", "probabilities", "onset_probabilities", "logits"}
             /\ net.predictions.classes.of = "combined_probs"
             /\ net.predictions.classes.value =
                    (IF net.combined_probs.value >= 5 THEN 10 ELSE 0)
             /\ net.predictions.probabilities = net.combined_probs
             /\ net.predictions.logits = net.combined_probs
             /\ net.predictions.onset_probabilities = net.probs_subdiv_2
             /\ net.export_outputs = {"predictions"}

\* a PREDICT call without labels has returned; the fused probability is
\* exactly 0.5 and differs from the onset sub-network's output
C15_Witness ==
    /\ op = "conv_net_init"
    /\ net.mode = "PREDICT" /\ net.use_rnn
    /\ net.labels.frames < 0
    /\ net.returned
    /\ net.combined_probs.value = 5
    /\ net.predictions.classes.value = 10
    /\ net.probs_subdiv_2.value # net.combined_probs.value

\* the elementwise log-loss -y*log(p+eps) - (1-y)*log(1-p+eps) of ground-truth
\* labels y and predicted probabilities p
ElementLoss(y, p) ==
    -(y.value * Ln1000(p.value + ClipNormTenths))
    - ((10 - y.value) * Ln1000(10 - p.value + ClipNormTenths))

\* C16: in TRAIN and EVAL modes with use_rnn = true, conv_net_init registers
\* exactly three loss terms, each the mean log-loss with y the labels and p the
\* probabilities: (frame labels, frames sub-network), (onset labels, onset
\* sub-network), (frame labels, fused probabilities); the total loss is their
\* sum.
C16_ThreeLogLosses ==
    (op = "conv_net_init" /\ net.mode # "PREDICT" /\ net.use_rnn
        /\ net.pc \in {"train", "metrics", "done"}) =>
        /\ Len(net.losses) = 3
        /\ net.losses[1].value = ElementLoss(net.label_frames, net.probs_subdiv_1)
        /\ net.losses[2].value = ElementLoss(net.label_onset, net.probs_subdiv_2)
        /\ net.losses[3].value = ElementLoss(net.label_frames, net.combined_probs)
        /\ net.loss = net.losses[1].value + net.losses[2].value + net.losses[3].value

SchedAsked == op = "cycle_fn" /\ sched.pc = "built" /\ sched.global_step >= 0

\* C17: the schedule of cycle_fn has boundaries [b*e1, ..., b*en] and maps a
\* step s to v0 when s < b*e1, to vi when b*ei <= s < b*e(i+1) and to vn when
\* s >= b*en (step 500 of b = 100, epochs [5, 10] maps to v1).
C17_ScheduleAtBoundary ==
    (op = "cycle_fn" /\ sched.pc = "built") =>
        /\ \A j \in DOMAIN sched.boundaries :
             2 * sched.boundaries[j] = sched.batch_halves * sched.boundary_epochs[j]
        /\ sched.global_step >= 0 =>
             sched.rate =
                sched.cycle_factor[
                    1 + Cardinality({j \in DOMAIN sched.boundary_epochs :
                        sched.batch_halves * sched.boundary_epochs[j]
                            <= 2 * sched.global_step})]

\* C17 as amended: the boundaries are [int(b*e1), ..., int(b*en)] and a step s
\* maps to v0 when s <= int(b*e1), to vi when int(b*ei) < s <= int(b*e(i+1))
\* and to vn when s > int(b*en): a step equal to a boundary still gets the
\* value of the interval below it.
C17_ScheduleBoundaryInclusive ==
    (op = "cycle_fn" /\ sched.pc = "built") =>
        /\ \A j \in DOMAIN sched.boundaries :
             /\ 2 * sched.boundaries[j] <= sched.batch_halves * sched.boundary_epochs[j]
             /\ 2 * sched.boundaries[j] + 2 > sched.batch_halves * sched.boundary_epochs[j]
        /\ sched.global_step >= 0 =>
             LET s == sched.global_step
                 n == Len(sched.boundaries)
             IN  /\ s <= sched.boundaries[1] => sched.rate = sched.cycle_factor[1]
                 /\ \A i \in 1..(n - 1) :
                      (sched.boundaries[i] < s /\ s <= sched.boundaries[i + 1])
                          => sched.rate = sched.cycle_factor[i + 1]
                 /\ s > sched.boundaries[n] => sched.rate = sched.cycle_factor[n + 1]

\* a schedule with two boundaries asked for the step equal to its second
\* boundary, which gets the middle value
C17_Witness ==
    /\ SchedAsked
    /\ Len(sched.boundaries) = 2
    /\ sched.boundaries[1] < sched.boundaries[2]
    /\ sched.global_step = sched.boundaries[2]
    /\ sched.rate = sched.cycle_factor[2]

RECURSIVE Concat(_)
Concat(q) == IF q = <<>> THEN <<>> ELSE Head(q) \o Concat(Tail(q))

\* C18: for every sequence s and length L >= 1, chunks(s, L) yields exactly
\* ceil(len(s) / L) slices in order whose concatenation is s; every slice but
\* the last has L elements, the last has 1..L elements and is not padded; an
\* empty sequence yields no slice; an iterator created again yields the same
\* slices.
C18_Chunks ==
    op = "chunks" =>
        LET n == Len(gen.sequence)
            L == gen.length
            count == (n + L - 1) \div L
        IN  /\ \A k \in DOMAIN gen.iterators :
                 LET y == gen.iterators[k].yielded
                 IN  /\ Len(y) <= count
                     /\ gen.iterators[k].exhausted => Len(y) = count
                     /\ Concat(y) = SubSeq(gen.sequence, 1, Min(n, Len(y) * L))
                     /\ \A i \in 1..Len(y) :
                          IF i < count THEN Len(y[i]) = L
                          ELSE Len(y[i]) \in 1..L /\ Len(y[i]) = n - (count - 1) * L
             /\ \A a, b \in DOMAIN gen.iterators :
                  \A i \in 1..Min(Len(gen.iterators[a].yielded),
                                  Len(gen.iterators[b].yielded)) :
                      gen.iterators[a].yielded[i] = gen.iterators[b].yielded[i]

\* an iterator ran to its end with a shorter last slice, and a second iterator
\* of the same call arguments has yielded its first slice
C18_Witness ==
    /\ op = "chunks"
    /\ Len(gen.iterators) = 2
    /\ gen.iterators[1].exhausted
    /\ Len(gen.iterators[1].yielded) >= 2
    /\ Len(gen.iterators[1].yielded[Len(gen.iterators[1].yielded)]) < gen.length
    /\ Len(gen.iterators[2].yielded) >= 1

RECURSIVE SumColumns(_)
SumColumns(q) == IF q = <<>> THEN 0 ELSE Head(q).columns + SumColumns(Tail(q))

HpcpDone == op = "wav_to_hpcp" /\ hp.pc = "done"

\* C19: for B >= 1 bands and N = num_classes, wav_to_hpcp concatenates exactly
\* one block per band, in band order; every band but the last contributes N
\* columns and the last N/3, so the result has (B-1)*N + N/3 columns.
C19_HpcpColumns ==
    HpcpDone =>
        LET B == hp.bands
            N == hp.audio_options.num_classes
        IN  /\ Len(hp.hpcp) = B
            /\ \A i \in 1..Len(hp.hpcp) :
                 /\ hp.hpcp[i].band = i
                 /\ hp.hpcp[i].columns = IF i < B THEN N ELSE N \div 3
            /\ SumColumns(hp.hpcp) = (B - 1) * N + N \div 3

\* C19 as amended: for B >= 2 bands wav_to_hpcp concatenates one block per
\* band, in band order, N columns for every band but the last and int(N/3)
\* for the last: (B-1)*N + int(N/3) columns.  For B = 1 the single band is
\* processed twice, as first band (N columns) and as last band (int(N/3)
\* columns): N + int(N/3) columns.
C19_HpcpColumnsTwoBands ==
    HpcpDone =>
        LET B == hp.bands
            N == hp.audio_options.num_classes
        IN  IF B >= 2
            THEN /\ Len(hp.hpcp) = B
                 /\ \A i \in 1..B :
                      /\ hp.hpcp[i].band = i
                      /\ hp.hpcp[i].columns = IF i < B THEN N ELSE N \div 3
                 /\ SumColumns(hp.hpcp) = (B - 1) * N + N \div 3
            ELSE /\ hp.hpcp = <<[band |-> 1, columns |-> N],
                               [band |-> 1, columns |-> N \div 3]>>
                 /\ SumColumns(hp.hpcp) = N + N \div 3

\* a call with middle bands and a num_classes that 3 does not divide returned
C19_Witness ==
    /\ HpcpDone
    /\ hp.bands >= 3
    /\ hp.audio_options.num_classes % 3 # 0
    /\ hp.audio_options.num_classes >= 3
    /\ Len(hp.hpcp) = hp.bands
    /\ hp.hpcp[hp.bands].columns < hp.hpcp[hp.bands - 1].columns

\* C20: convert_jams_to_midi processes every file of the folder whose name
\* ends in ".jams" and writes the MIDI output of X.jams to X.mid, X being the
\* name without its final ".jams"; two distinct .jams files are never written
\* to the same .mid path.
C20_SameStemMidi ==
    (op = "convert_jams_to_midi" /\ jm.pc = "done") =>
        /\ jm.converted = {name \in jm.folder : EndsWithJams(name)}
        /\ \A name \in jm.converted :
             \E w \in jm.written :
                 /\ w.src = name
                 /\ w.path = SubSeq(name, 1, Len(name) - 1) \o <<"mid">>
        /\ \A f, g \in jm.converted : f # g => MidiName(f) # MidiName(g)

\* the labels of the report's headers and mean lines, in the order written
RECURSIVE ReportLabels(_)
ReportLabels(lines) ==
    IF lines = <<>> THEN <<>>
    ELSE (IF Head(lines).kind \in {"header", "mean"}
          THEN <<<<Head(lines).text, Head(lines).k>>>> ELSE <<>>)
         \o ReportLabels(Tail(lines))

ExpectedLabels(nop) ==
    <<<<"frame-wise metrics (precision/recall/f1-score)", 0>>,
      <<"mean:", 0>>,
      <<"mean (onset prediction):", 0>>,
      <<"mean (onset heuristic):", 0>>,
      <<"mean (onset only):", 0>>>>
    \o [k \in 1..nop |-> <<"mean (onset + k only):", k>>]
    \o <<<<"mean (offset only):", 0>>,
         <<"note metrics w/o onset predictions (precision/recall/f1-score)", 0>>,
         <<"mean (w/o offset):", 0>>,
         <<"mean (w/ offset):", 0>>,
         <<"note metrics w/ onset predictions (precision/recall/f1-score)", 0>>,
         <<"mean (w/o offset):", 0>>,
         <<"mean (w/ offset):", 0>>,
         <<"note metrics w/ onset predictions and heuristic (10 frames) (precision/recall/f1-score)", 0>>,
         <<"mean (w/o offset):", 0>>,
         <<"mean (w/ offset):", 0>>>>

IsPrefix(s, t) == Len(s) <= Len(t) /\ SubSeq(t, 1, Len(s)) = s

\* C21: the report of compute_all_error_metrics has the lines "mean:",
\* "mean (onset prediction):", "mean (onset heuristic):", "mean (onset only):",
\* then one line "mean (onset + k only):" for each k = 1..n_onset_plus in
\* increasing order, then "mean (offset only):", then the three note-metric
\* sections, each with "mean (w/o offset):" before "mean (w/ offset):"; while
\* the report is being written its lines are a prefix of that sequence
C21_ReportLines ==
    (op = "compute_all_error_metrics") =>
        /\ IsPrefix(ReportLabels(em.report), ExpectedLabels(n_onset_plus))
        /\ em.closed => ReportLabels(em.report) = ExpectedLabels(n_onset_plus)

C21_Witness ==
    /\ op = "compute_all_error_metrics"
    /\ em.closed
    /\ n_onset_plus = 2
    /\ em.num_pieces >= 1
    /\ Len(em.report) = 26

\* C24: every call of get_note_activation whose ground truth could be built
\* returns the six results, whether use_rnn is true or false
C24_SixResults ==
    (op = "compute_all_error_metrics") =>
        \A c \in 1..Len(em.calls) :
            em.calls[c].gt_status = "ok" =>
                /\ em.calls[c].status = "ok"
                /\ em.calls[c].returned = SixResults

AtFileBoundary == em.pc \in {"loop", "open", "onset_plus", "close", "done"}
AfterLoop == em.pc \in {"open", "onset_plus", "close", "done"}

\* C28: after the i-th file has been processed every accumulator of
\* compute_all_error_metrics (the flat lists and each of the n_onset_plus
\* onset + k lists) holds exactly i entries, and once the loop has ended each
\* holds num_pieces entries, the number every mean is divided by
C28_AccumulatorCounts ==
    (op = "compute_all_error_metrics" /\ AtFileBoundary) =>
        /\ \A l \in FlatLists : Len(em.lists[l]) = em.index
        /\ DOMAIN em.frame_wise_onset_plus_metrics = 1..n_onset_plus
        /\ \A k \in 1..n_onset_plus :
               Len(em.frame_wise_onset_plus_metrics[k]) = em.index
        /\ AfterLoop =>
               /\ em.index = em.num_pieces
               /\ \A l \in FlatLists :
                      /\ em.means[l].n = em.num_pieces
                      /\ Len(em.means[l].of) = em.num_pieces
               /\ \A k \in 1..n_onset_plus :
                      /\ em.mean_frame_wise_onset_plus[k].n = em.num_pieces
                      /\ Len(em.mean_frame_wise_onset_plus[k].of) = em.num_pieces

C28_Witness ==
    /\ op = "compute_all_error_metrics"
    /\ em.pc = "done"
    /\ em.num_pieces = 2
    /\ n_onset_plus = 2
    /\ Len(em.lists["note_wise_onset_metrics"]) = 2

\* C22: wav_to_hpcp leaves the map it obtained from get_hpcp_parameters
\* unchanged: after a call the fmin and fmax entries are the per-band arrays
\* they were when the map was obtained, and a second call obtains the same
\* parameters as the first
C22_ParametersUnchanged ==
    (op = "wav_to_hpcp") =>
        /\ hp.pc \in {"post", "done"} =>
               /\ hp.audio_options.fmin = hp.obtained[hp.call].fmin
               /\ hp.audio_options.fmax = hp.obtained[hp.call].fmax
               /\ hp.audio_options.fmin.kind = "array"
        /\ Len(hp.obtained) = 2 => hp.obtained[2] = hp.obtained[1]

\* C23: with use_rnn false conv_net_init binds, besides the labels, only the
\* plain ResNet's logits, never reaches the predictions and never returns a
\* result, in any mode; a call that got past the labels ends in the NameError
\* raised where the fusion reads the sub-network probabilities
C23_PlainBranchFails ==
    (op = "conv_net_init" /\ ~net.use_rnn) =>
        /\ ~net.returned
        /\ net.pc \in {"labels", "network", "fusion", "NameError", "ValueError"}
        /\ net.bound \subseteq {"label_frames", "label_onset", "logits"}
        /\ net.predictions = <<>>
        /\ net.losses = <<>>
        /\ net.pc = "NameError" => "logits" \in net.bound
        /\ net.pc = "ValueError" => net.mode # "PREDICT" /\ net.labels.frames < 0

C23_Witness ==
    /\ op = "conv_net_init"
    /\ ~net.use_rnn
    /\ net.mode = "EVAL"
    /\ net.labels.frames >= 0
    /\ net.pc = "NameError"
    /\ net.bound = {"label_frames", "label_onset", "logits"}

\* C25: in each of the three drivers build_predictor is called exactly once,
\* before the first file or window is processed, and every value passed to
\* get_activation as the predictor is the first element of the pair that
\* build_predictor returned
C25_PredictorPassed ==
    (op \in SesDrivers) =>
        /\ Len(ses.built) <= 1
        /\ ses.pc # "build" => Len(ses.built) = 1
        /\ ses.file > 0 => Len(ses.built) = 1
        /\ \A i \in 1..Len(ses.passed) :
               /\ Len(ses.built) = 1
               /\ ses.passed[i] = ses.built[1].first

\* C27: each inspection loop ends without an error for a dataset of any
\* length n; when it reaches the diagnostics it has read min(n, bound)
\* records (bound = 2180, 100, 5000) and the array it examines holds, after
\* its columns of zeros, exactly the slices of those records, in order
C27_BoundedInspection ==
    (op \in VisRoutines) =>
        /\ vis.pc # "IndexError"
        /\ vis.index <= LoopBound(op)
        /\ vis.pc \in {"diagnostics", "shown"} =>
               /\ vis.consumed = Min(vis.n, LoopBound(op))
               /\ vis.np_spec = [i \in 1..InitialColumns(op) |-> 0]
                                \o [i \in 1..Min(vis.n, LoopBound(op)) |-> i]
        /\ vis.pc = "shown" => vis.diagnostics = vis.np_spec

\* C26: get_spec_processor never modifies the caller's options map; the map
\* it returns has no 'spectrogram_type' key and has a 'filterbank' key that
\* holds a resolved toolkit attribute; with 'spectrogram_type' absent the
\* processor is LogarithmicFilteredSpectrogram and with 'filterbank' absent
\* the filterbank is LogarithmicFilterbank; every other key is passed on
C26_SanitizedOptions ==
    (op = "get_spec_processor") =>
        /\ sp.heap.caller = sp.given
        /\ sp.pc = "done" =>
             LET spectype == sp.result[1]
                 options == sp.result[2]
             IN  /\ "spectrogram_type" \notin DOMAIN options
                 /\ "filterbank" \in DOMAIN options
                 /\ options["filterbank"].attribute \in MadmomAttributes
                 /\ spectype.attribute \in MadmomAttributes
                 /\ spectype.attribute =
                        (IF "spectrogram_type" \in DOMAIN sp.given
                         THEN sp.given["spectrogram_type"]
                         ELSE "LogarithmicFilteredSpectrogram")
                 /\ options["filterbank"].attribute =
                        (IF "filterbank" \in DOMAIN sp.given
                         THEN sp.given["filterbank"]
                         ELSE "LogarithmicFilterbank")
                 /\ \A k \in DOMAIN sp.given \cap OtherOptions :
                        k \in DOMAIN options /\ options[k] = sp.given[k]

C26_Witness ==
    /\ op = "get_spec_processor"
    /\ sp.pc = "done"
    /\ DOMAIN sp.given = {"spectrogram_type", "fps"}
    /\ sp.given["spectrogram_type"] = "FilteredSpectrogram"
    /\ sp.result[2]["filterbank"].attribute = "LogarithmicFilterbank"


\* C29: in the results of midi_to_groundtruth (non-chroma) and of
\* midi_to_triple_groundtruth, onset_gt[f, l] = 1 implies frame_gt[f, l] = 1
\* for every frame f and label l.
C29_OnsetWithinFrame ==
    ((GtReturned /\ ~is_chroma) \/ TripleReturned) =>
        gt_result.onset_gt \subseteq gt_result.frame_gt

\* the cells (frame_start, label) of the notes whose frame_end does not exceed
\* their frame_start
EmptyNoteCells == {<<FS(i), LB(i)>> : i \in {j \in NoteIdx : FE(j) <= FS(j)}}

\* C29 as amended: midi_to_groundtruth (non-chroma) returns an onset_gt
\* contained in its frame_gt; midi_to_triple_groundtruth returns an onset_gt
\* whose cells outside frame_gt are exactly the cells (frame_start, label) of
\* the notes with frame_end <= frame_start that no other note's frames cover.
C29_OnsetWithinFrameButEmptyNotes ==
    /\ (GtReturned /\ ~is_chroma) =>
           gt_result.onset_gt \subseteq gt_result.frame_gt
    /\ TripleReturned =>
           gt_result.onset_gt \ gt_result.frame_gt =
               EmptyNoteCells \ gt_result.frame_gt

\* a returned triple result in which a note of no frames has its onset cell set
\* and its frame cell clear
C29_Witness ==
    /\ TripleReturned
    /\ \E i \in NoteIdx : /\ FE(i) <= FS(i)
                          /\ <<FS(i), LB(i)>> \in gt_result.onset_gt
                          /\ <<FS(i), LB(i)>> \notin gt_result.frame_gt


\* the divisors of n that do not exceed floor(sqrt(n))
LowDivisors(n) == {d \in 1..n : n % d = 0 /\ d * d <= n}
IsPrime(n) == n >= 2 /\ \A d \in 2..(n - 1) : n % d # 0
GridReturned == op = "put_kernels_on_grid" /\ grid.pc \in {"returned", "done"}

\* C30: for every kernel count n >= 2 the factorization returns (i, n/i) with
\* i the largest divisor of n not exceeding floor(sqrt(n)), so i * (n/i) = n
\* and i <= n/i (64 gives (8,8), 48 gives (6,8)); a prime n gives (1, n) with
\* the diagnostic, a composite n gives i > 1 without the diagnostic.
C30_GridFactorization ==
    (GridReturned /\ grid.n >= 2) =>
        /\ Len(grid.returned) = 2
        /\ LET i == grid.returned[1]
               m == grid.returned[2]
           IN  /\ i \in LowDivisors(grid.n)
               /\ \A d \in LowDivisors(grid.n) : d <= i
               /\ i * m = grid.n
               /\ i <= m
               /\ grid.n = 64 => grid.returned = <<8, 8>>
               /\ grid.n = 48 => grid.returned = <<6, 8>>
               /\ IsPrime(grid.n) =>
                      /\ grid.returned = <<1, grid.n>>
                      /\ grid.printed = <<PrimeDiagnostic>>
               /\ ~IsPrime(grid.n) => i > 1 /\ grid.printed = << >>

\* the grid of 48 kernels has been unpacked as 6 rows of 8
C30_Witness ==
    /\ op = "put_kernels_on_grid"
    /\ grid.pc = "done"
    /\ grid.n = 48
    /\ grid.grid_Y = 6
    /\ grid.grid_X = 8

====
